---------------------------- MODULE Spec2Model ----------------------------
(***************************************************************************)
(* NSE option-chain backend: the fetch / parse / dedup / store cycle.      *)
(*                                                                         *)
(*   database_service.py  DatabaseService   (the MongoDB collection)       *)
(*   nse_service.py       NSEDataFetcher    (fetch with retries, parse)    *)
(*   data_pipeline.py     DataPipeline, PipelineManager (the loop)         *)
(*                                                                         *)
(* Timestamps (datetime.now) are natural numbers read from `clock`.        *)
(* The collection is a bag of documents: MongoDB keeps no document twice   *)
(* only where a unique index forbids it, so the model must be able to      *)
(* hold two equal documents.                                               *)
(***************************************************************************)
EXTENDS Integers, Sequences, FiniteSets, Bags, TLC

VARIABLES
    store,      \* DatabaseService.collection: a bag of documents
    db_op,      \* the most recent call of the DatabaseService API and its outcome
    clock,      \* the greatest time datetime.now() has returned
    running,                \* DataPipeline.running
    total_cycles,           \* DataPipeline.total_cycles
    successful_cycles,      \* DataPipeline.successful_cycles
    failed_cycles,          \* DataPipeline.failed_cycles
    last_successful_fetch,  \* DataPipeline.last_successful_fetch
    stats,                  \* DataPipeline.stats
    db_closes,  \* how often db_service.close() has been called
    loop_pc,    \* where the thread of run_continuous stands
    sym_idx,    \* run_continuous: position of `for symbol in self.symbols`
    cycle_success,          \* run_continuous: cycle_success
    cycle,      \* run_single_cycle: its locals, and what held when it began
    result,     \* the dict the latest run_single_cycle returned
    tick,       \* success of the cycles run so far in this pass of the while loop
    lastp,      \* per symbol, the payload its latest successful cycle fetched
    caller,     \* the code that starts and stops the pipeline
    fetch,      \* the call of fetch_option_chain in progress, FetchSpec only
    main,       \* main.py: its tracked symbols, threads and collections, MainSpec only
    parse,      \* the last call of parse_option_chain and what it returned, ParseSpec only
    http,       \* the call of NSEHttpClient.fetch_option_chain_csv in progress, HttpSpec only
    csv,        \* NSEOptionChainPipeline: its cycle in progress and its collection, CsvSpec only
    sched,      \* the clock readings and the sleep of a pass of the while loop, SleepSpec only
    reader,     \* the call of get_status in progress and the dict it returned, StatusSpec only
    stop_requested          \* a stop request has set running to False

store_vars == <<store, db_op>>
pipeline_vars == <<running, total_cycles, successful_cycles, failed_cycles,
                   last_successful_fetch, stats, db_closes, loop_pc, sym_idx,
                   cycle_success, cycle, result, tick, lastp, caller, stop_requested>>
loop_vars == <<clock, pipeline_vars>>
vars == <<store_vars, loop_vars, fetch, main, parse, http, csv, sched, reader>>

----------------------------------------------------------------------------
(* Bounds of the model *)

MaxStore == 3          \* documents the collection may hold before callers stop storing
MaxCycles == 2         \* passes of the while loop of run_continuous
Times == {0, 1}        \* the readings of the clock

Symbols == {"NIFTY", "BANKNIFTY"}
StrikesOf(symbol) == IF symbol = "NIFTY" THEN {25000, 25100} ELSE {48000}
Expiries == {"30-Jan-2025"}
BatchSizes == 0 .. 2            \* entries of one submitted batch, calls and puts together
StoreTimes == {1, 2}            \* fetched_at values of directly submitted entries
Limits == {1, 100}              \* `limit` arguments; 100 is the default

CE == "CE"    \* OptionType.CALL.value
PE == "PE"    \* OptionType.PUT.value

Min(a, b) == IF a < b THEN a ELSE b

----------------------------------------------------------------------------
(* models.py: OptionChainEntry, as the document option.dict() yields *)

identifier_of(symbol, type, strike_price, expiry_date) ==
    symbol \o "_" \o type \o "_" \o ToString(strike_price) \o "_" \o expiry_date

OptionChainEntry(symbol, type, strike_price, expiry_date, fetched_at, last_price) ==
    [symbol |-> symbol, type |-> type, strike_price |-> strike_price,
     expiry_date |-> expiry_date,
     identifier |-> identifier_of(symbol, type, strike_price, expiry_date),
     fetched_at |-> fetched_at, last_price |-> last_price]

SeqsOver(S, lengths) == UNION { [1 .. k -> S] : k \in lengths }

----------------------------------------------------------------------------
(* database_service.py: the collection and its unique index *)

\* _setup_indexes: dedup_index, unique over (identifier, fetched_at)
dedup_index(doc) == <<doc.identifier, doc.fetched_at>>

\* dedup_index created without unique=True: nothing violates it
not_unique(coll, doc) == FALSE

\* does inserting `doc` violate dedup_index?  (unique=True)
violates_unique(coll, doc) ==
    \E x \in BagToSet(coll) : dedup_index(x) = dedup_index(doc)

\* insert_many(documents, ordered=True): the first write error ends the batch
RECURSIVE insert_many_ordered(_, _)
insert_many_ordered(coll, documents) ==
    IF documents = <<>> THEN [coll |-> coll, nInserted |-> 0]
    ELSE IF violates_unique(coll, Head(documents)) THEN [coll |-> coll, nInserted |-> 0]
    ELSE LET rest == insert_many_ordered(coll (+) SetToBag({Head(documents)}),
                                         Tail(documents))
         IN  [coll |-> rest.coll, nInserted |-> rest.nInserted + 1]

\* collection.insert_many(documents, ordered=False): every document is tried;
\* one that violates the unique index is a write error and the others go on.
\* Yields the collection afterwards and nInserted.
RECURSIVE insert_many(_, _)
insert_many(coll, documents) ==
    IF documents = <<>> THEN [coll |-> coll, nInserted |-> 0]
    ELSE LET doc  == Head(documents)
             dup  == violates_unique(coll, doc)
             rest == insert_many(IF dup THEN coll ELSE coll (+) SetToBag({doc}),
                                 Tail(documents))
         IN  [coll |-> rest.coll,
              nInserted |-> rest.nInserted + (IF dup THEN 0 ELSE 1)]

\* _bulk_insert_with_dedup reading no e.details: every document counts as inserted
bulk_insert_count_all(coll, options, fault) ==
    IF options = <<>>
    THEN [coll |-> coll, inserted |-> 0, skipped |-> 0, raised |-> FALSE,
          write_errors |-> 0]
    ELSE IF fault = "raise"
    THEN [coll |-> coll, inserted |-> 0, skipped |-> 0, raised |-> TRUE,
          write_errors |-> 0]
    ELSE [coll |-> insert_many(coll, options).coll, inserted |-> Len(options),
          skipped |-> 0, raised |-> FALSE, write_errors |-> 0]

\* what an insert_many may meet besides duplicates: "raise" is an exception
\* other than BulkWriteError (the connection is lost); "write_error" is the
\* server rejecting the first document for a reason other than the unique
\* index (document validation), which insert_many reports, as it reports
\* duplicates, in a BulkWriteError
Faults == {"none", "raise", "write_error"}

\* a collection whose server rejects a document for a duplicate key only
DuplicateKeyOnly == {"none", "raise"}

\* DatabaseService._bulk_insert_with_dedup.  An exception other than
\* BulkWriteError is re-raised; a BulkWriteError is caught whatever write errors
\* it holds.  write_errors counts the documents rejected for a reason other
\* than a duplicate key.
bulk_insert_with_dedup(coll, options, fault) ==
    IF options = <<>>
    THEN [coll |-> coll, inserted |-> 0, skipped |-> 0, raised |-> FALSE,
          write_errors |-> 0]
    ELSE IF fault = "raise"
    THEN [coll |-> coll, inserted |-> 0, skipped |-> 0, raised |-> TRUE,
          write_errors |-> 0]
    ELSE IF fault = "write_error"
    THEN \* BulkWriteError: e.details['nInserted'] of the other documents
         LET r == insert_many(coll, Tail(options))
         IN  [coll |-> r.coll, inserted |-> r.nInserted,
              skipped |-> Len(options) - r.nInserted, raised |-> FALSE,
              write_errors |-> 1]
    ELSE LET r == insert_many(coll, options)
         IN  IF r.nInserted = Len(options)
             THEN \* no BulkWriteError: len(result.inserted_ids)
                  [coll |-> r.coll, inserted |-> Len(options), skipped |-> 0,
                   raised |-> FALSE, write_errors |-> 0]
             ELSE \* BulkWriteError: e.details['nInserted']
                  [coll |-> r.coll, inserted |-> r.nInserted,
                   skipped |-> Len(options) - r.nInserted, raised |-> FALSE,
                   write_errors |-> 0]

ZeroStats ==
    [calls_inserted |-> 0, puts_inserted |-> 0, calls_skipped |-> 0,
     puts_skipped |-> 0, total_processed |-> 0]

\* DatabaseService.store_option_data.  fault \in {"none", "calls", "puts"} names
\* the insert that raises.  When it raises no statistics are returned.
store_option_data(coll, call_options, put_options, fault) ==
    LET c == IF call_options # <<>>
             THEN bulk_insert_with_dedup(coll, call_options,
                                         IF fault = "calls" THEN "raise" ELSE "none")
             ELSE [coll |-> coll, inserted |-> 0, skipped |-> 0, raised |-> FALSE,
                   write_errors |-> 0]
        p == IF put_options # <<>>
             THEN bulk_insert_with_dedup(c.coll, put_options,
                                         IF fault = "puts" THEN "raise" ELSE "none")
             ELSE [coll |-> c.coll, inserted |-> 0, skipped |-> 0, raised |-> FALSE,
                   write_errors |-> 0]
    IN  IF c.raised THEN [coll |-> c.coll, raised |-> TRUE, stats |-> ZeroStats]
        ELSE IF p.raised THEN [coll |-> p.coll, raised |-> TRUE, stats |-> ZeroStats]
        ELSE [coll |-> p.coll, raised |-> FALSE,
              stats |-> [calls_inserted |-> c.inserted, puts_inserted |-> p.inserted,
                         calls_skipped |-> c.skipped, puts_skipped |-> p.skipped,
                         total_processed |-> Len(call_options) + Len(put_options)]]

\* the documents of `coll` a find(filter) matches, as a bag
find(coll, symbol, type, fetched_at) ==
    LET hit == { d \in BagToSet(coll) :
                   d.symbol = symbol /\ d.type = type /\ d.fetched_at = fetched_at }
    IN  [d \in hit |-> coll[d]]

\* cursor.sort("strike_price", 1): every order of the documents that ascends in
\* strike_price (MongoDB leaves the order of equal keys open)
RECURSIVE sort_strike_price(_)
sort_strike_price(bag) ==
    IF BagToSet(bag) = {} THEN { <<>> }
    ELSE LET lowest == { d \in BagToSet(bag) :
                           \A x \in BagToSet(bag) : d.strike_price <= x.strike_price }
         IN  UNION { { <<d>> \o s : s \in sort_strike_price(bag (-) SetToBag({d})) } :
                     d \in lowest }

\* cursor.limit(limit)
limit_to(s, limit) == SubSeq(s, 1, Min(limit, Len(s)))

\* find_one sorted by ("fetched_at", 1): the oldest document
find_one_oldest(coll, symbol) ==
    LET of == { d \in BagToSet(coll) : d.symbol = symbol }
    IN  { d.fetched_at : d \in { x \in of : \A y \in of : x.fetched_at <= y.fetched_at } }

\* find_one({"symbol": symbol}, sort=[("fetched_at", -1)]): the fetched_at values
\* the document found may carry (none when the symbol has no document)
find_one_latest(coll, symbol) ==
    LET of == { d \in BagToSet(coll) : d.symbol = symbol }
    IN  { d.fetched_at : d \in { x \in of : \A y \in of : y.fetched_at <= x.fetched_at } }

\* DatabaseService.get_latest_option_data: the set of (calls, puts) it may return
get_latest_option_data(coll, symbol, limit) ==
    IF find_one_latest(coll, symbol) = {} THEN { <<<< >>, << >>>> }
    ELSE UNION { { <<limit_to(c, limit), limit_to(p, limit)>> :
                     c \in sort_strike_price(find(coll, symbol, CE, latest_time)),
                     p \in sort_strike_price(find(coll, symbol, PE, latest_time)) } :
                 latest_time \in find_one_latest(coll, symbol) }

----------------------------------------------------------------------------
(* Calls of the DatabaseService API *)

NoOp ==
    [op |-> "none", calls |-> <<>>, puts |-> <<>>, fault |-> "none", raised |-> FALSE,
     stats |-> ZeroStats, before |-> 0, fresh |-> FALSE,
     repeat |-> FALSE, first_stats |-> ZeroStats, first_before |-> 0,
     first_fresh |-> FALSE, dup_calls |-> 0, dup_puts |-> 0,
     symbol |-> "", limit |-> 0, r_calls |-> <<>>, r_puts |-> <<>>,
     during |-> "idle", cycle_calls |-> <<>>, cycle_puts |-> <<>>, status |-> 0]

Keys(entries) == { dedup_index(entries[i]) : i \in DOMAIN entries }

\* the entries carry pairwise distinct keys, none of them stored yet
Fresh(coll, entries) ==
    /\ Cardinality(Keys(entries)) = Len(entries)
    /\ \A i \in DOMAIN entries : ~ violates_unique(coll, entries[i])

\* the entries of one kind in a snapshot of `symbol` fetched at `fetched_at`
EntriesOf(symbol, type, fetched_at) ==
    { OptionChainEntry(symbol, type, k, e, fetched_at, [none |-> FALSE, n |-> 100]) :
        k \in StrikesOf(symbol), e \in Expiries }

\* how many of `entries` repeat a key that `coll` holds or that stands earlier in
\* `entries` (counted from the keys alone, not by inserting)
Duplicates(coll, entries) ==
    Cardinality({ i \in DOMAIN entries :
        \/ \E x \in BagToSet(coll) : dedup_index(x) = dedup_index(entries[i])
        \/ \E j \in 1 .. i - 1 : dedup_index(entries[j]) = dedup_index(entries[i]) })

\* the batches callers submit, (call_options, put_options): entries of one
\* symbol and one fetched_at, calls of type CE and puts of type PE, in any
\* order and with repetitions
Batches ==
    UNION { { b \in SeqsOver(EntriesOf(s, CE, t), BatchSizes)
                      \X SeqsOver(EntriesOf(s, PE, t), BatchSizes) :
                Len(b[1]) + Len(b[2]) \in BatchSizes } :
            s \in Symbols, t \in StoreTimes }

\* a caller stores a batch: store_option_data(call_options, put_options)
StoreOptionData ==
    \E b \in Batches :
        LET call_options == b[1]
            put_options == b[2]
            r == store_option_data(store, call_options, put_options, "none")
            again == /\ db_op.op = "store" /\ ~ db_op.raised
                     /\ db_op.calls = call_options /\ db_op.puts = put_options
        IN  /\ BagCardinality(r.coll) <= MaxStore
            /\ store' = r.coll
            /\ db_op' = [NoOp EXCEPT
                   !.op = "store", !.calls = call_options, !.puts = put_options,
                   !.raised = r.raised, !.stats = r.stats,
                   !.before = BagCardinality(store),
                   !.fresh = Fresh(store, call_options \o put_options),
                   !.dup_calls = Duplicates(store, call_options),
                   !.dup_puts = Duplicates(store, put_options),
                   !.repeat = again,
                   !.first_stats = IF again THEN db_op.stats ELSE ZeroStats,
                   !.first_before = IF again THEN db_op.before ELSE 0,
                   !.first_fresh = IF again THEN db_op.fresh ELSE FALSE]
            /\ UNCHANGED <<loop_vars, fetch, main, parse, http, csv, sched, reader>>

\* a caller reads the latest snapshot: get_latest_option_data(symbol, limit);
\* the call notes where the pipeline's loop stands and the entries of its cycle
GetLatestOptionData ==
    \E symbol \in Symbols, limit \in Limits :
      \E r \in get_latest_option_data(store, symbol, limit) :
        /\ db_op' = [NoOp EXCEPT !.op = "latest", !.symbol = symbol, !.limit = limit,
                                 !.r_calls = r[1], !.r_puts = r[2],
                                 !.during = loop_pc,
                                 !.cycle_calls = cycle.call_options,
                                 !.cycle_puts = cycle.put_options]
        /\ UNCHANGED <<store, loop_vars, fetch, main, parse, http, csv, sched, reader>>

\* nse_backend_app.py, GET /option-chain/{symbol}: the dependency
\* get_db_service, then get_option_chain.  `available` is the global db_service
\* being set, `query_fails` is get_latest_option_data raising (it logs and
\* re-raises what the driver raised).
GetOptionChain ==
    \E symbol \in Symbols, limit \in Limits, available \in BOOLEAN, query_fails \in BOOLEAN :
        /\ IF ~ available
           THEN \* get_db_service: HTTPException(status_code=503)
                db_op' = [NoOp EXCEPT !.op = "get_option_chain", !.symbol = symbol,
                                      !.limit = limit, !.fault = "unavailable",
                                      !.status = 503]
           ELSE IF query_fails
           THEN \* `except Exception`: HTTPException(status_code=500)
                db_op' = [NoOp EXCEPT !.op = "get_option_chain", !.symbol = symbol,
                                      !.limit = limit, !.fault = "query",
                                      !.raised = TRUE, !.status = 500]
           ELSE \E r \in get_latest_option_data(store, symbol, limit) :
                  db_op' = [NoOp EXCEPT !.op = "get_option_chain", !.symbol = symbol,
                                        !.limit = limit,
                                        !.r_calls = r[1], !.r_puts = r[2],
                                        !.status = IF r[1] = <<>> /\ r[2] = <<>>
                                                   THEN 404 ELSE 200]
        /\ UNCHANGED <<store, loop_vars, fetch, main, parse, http, csv, sched, reader>>

StoreInit == store = EmptyBag /\ db_op = NoOp

----------------------------------------------------------------------------
(* nse_service.py: raw upstream values and payloads *)

\* JSON values as the parser meets them: a number, a string or null.  Prices
\* are counted in hundredths (125.75 is 12575).
RawNum(n) == [t |-> "num", n |-> n, s |-> ""]
RawStr(s) == [t |-> "str", n |-> 0, s |-> s]
RawNone   == [t |-> "none", n |-> 0, s |-> ""]

\* a JSON number written with a fraction, n.0: a Python float
RawFloat(n) == [t |-> "float", n |-> n, s |-> ""]

\* the key is not in the object
RawMissing == [t |-> "missing", n |-> 0, s |-> ""]

\* dict.get(key, default)
get(v, default) == IF v.t = "missing" THEN default ELSE v

\* an optional float of the model (Optional[float])
None == [none |-> TRUE, n |-> 0]
Float(n) == [none |-> FALSE, n |-> n]

\* a CE or PE sub-object of a row; `present` is the key being in the row
Side(lastPrice) == [present |-> TRUE, lastPrice |-> lastPrice]
NoSide == [present |-> FALSE, lastPrice |-> RawNone]

Row(strikePrice, expiryDate, ce, pe) ==
    [strikePrice |-> strikePrice, expiryDate |-> expiryDate, CE |-> ce, PE |-> pe]

\* the parsed JSON body: has_records is the key "records" being in it, mapping
\* is its value being a JSON object
PayloadWith(data, underlyingValue) ==
    [has_records |-> TRUE, mapping |-> TRUE, data |-> data,
     underlyingValue |-> underlyingValue]
Payload(data) == PayloadWith(data, RawNum(25075))
RecordsNotAnObject ==
    [has_records |-> TRUE, mapping |-> FALSE, data |-> <<>>, underlyingValue |-> RawMissing]
NoRecordsKey ==
    [has_records |-> FALSE, mapping |-> FALSE, data |-> <<>>, underlyingValue |-> RawMissing]

\* NSEDataFetcher._get_fallback_data: one row, whatever the symbol
fallback_data(symbol) ==
    Payload(<< Row(RawNum(25000), RawStr("30-Jan-2025"),
                   Side(RawNum(12575)), Side(RawNum(7550))) >>)

\* the bodies upstream answers with for `symbol`: a chain of one row, a body
\* whose "records" is no object and, for BANKNIFTY, a chain without rows
UpstreamPayloads(symbol) ==
    { Payload(<< Row(RawNum(k), RawStr("30-Jan-2025"),
                     Side(RawNum(100)), Side(RawNum(50))) >>) :
        k \in { CHOOSE x \in StrikesOf(symbol) : \A y \in StrikesOf(symbol) : x <= y } }
    \cup { RecordsNotAnObject }
    \cup (IF symbol = "BANKNIFTY" THEN { Payload(<<>>) } ELSE {})

\* an HTTP answer to the data request: the request raising (timeout, connection
\* error), else a status and a body
Response(exc, status, body, json) ==
    [exc |-> exc, status |-> status, body |-> body, json |-> json]

Responses(symbol) ==
    { Response(FALSE, 200, "json", j) : j \in UpstreamPayloads(symbol) \cup {NoRecordsKey} }
    \cup { Response(TRUE, 0, "empty", NoRecordsKey),
           Response(FALSE, 503, "html", NoRecordsKey),
           Response(FALSE, 200, "empty", NoRecordsKey),
           Response(FALSE, 200, "html", NoRecordsKey),
           Response(FALSE, 200, "text", NoRecordsKey) }

\* fetch_option_chain, lines 131-158: does the answer pass every check?
validates(resp) ==
    /\ ~ resp.exc                   \* session.get returned
    /\ resp.status < 400            \* raise_for_status
    /\ resp.body # "empty"          \* response.text.strip()
    /\ resp.body # "html"           \* startswith('<')
    /\ resp.body = "json"           \* response.json()
    /\ resp.json.has_records        \* "records" in data

MAX_ATTEMPTS == 3

\* the state of one fetch_option_chain call: the loop variable `attempt`, what
\* it has done so far and what it returned, and NSEConfig.USE_FALLBACK_DATA of
\* the deployment (True unless configured otherwise)
FetchBegun(symbol) ==
    [pc |-> "attempting", symbol |-> symbol, attempt |-> 0, events |-> <<>>,
     answers |-> <<>>, source |-> "none", data |-> NoRecordsKey,
     USE_FALLBACK_DATA |-> TRUE]

FetchIdle == [FetchBegun("") EXCEPT !.pc = "idle"]

\* what a pass of the loop does before it looks at the answer: the session
\* refresh and the pause of every pass but the first, then the request
attempted(f, resp) ==
    LET refreshed == IF f.attempt > 0 THEN <<"initialize_session", "sleep3">> ELSE <<>>
    IN  [f EXCEPT !.events = f.events \o refreshed \o <<"get">>,
                  !.answers = Append(f.answers, resp)]

\* a pass that goes on with the next one although its answer validates
fetch_attempt_goes_on(f, resp) ==
    IF f.attempt = MAX_ATTEMPTS - 1
    THEN [attempted(f, resp) EXCEPT !.pc = "returned",
              !.source = IF validates(resp) THEN "upstream" ELSE "fallback",
              !.data = IF validates(resp) THEN resp.json ELSE fallback_data(f.symbol)]
    ELSE [attempted(f, resp) EXCEPT !.attempt = f.attempt + 1]

\* one pass whose `except` branch has no fallback: the loop goes on, and
\* once its range is exhausted the RuntimeError after it is raised
fetch_attempt_no_fallback(f, resp) ==
    IF f.attempt >= MAX_ATTEMPTS THEN [f EXCEPT !.pc = "RuntimeError"]
    ELSE IF validates(resp)
    THEN [attempted(f, resp) EXCEPT !.pc = "returned", !.source = "upstream",
                                    !.data = resp.json]
    ELSE [attempted(f, resp) EXCEPT !.attempt = f.attempt + 1]

\* one pass of `for attempt in range(3)` with `resp` the answer to its request;
\* were the range exhausted, the statement after the loop raises RuntimeError
fetch_attempt(f, resp) ==
    IF f.attempt >= MAX_ATTEMPTS THEN [f EXCEPT !.pc = "RuntimeError"]
    ELSE IF validates(resp)
    THEN [attempted(f, resp) EXCEPT !.pc = "returned", !.source = "upstream",
                                    !.data = resp.json]
    ELSE IF f.attempt = MAX_ATTEMPTS - 1
    THEN [attempted(f, resp) EXCEPT !.pc = "returned", !.source = "fallback",
                                    !.data = fallback_data(f.symbol)]
    ELSE [attempted(f, resp) EXCEPT !.attempt = f.attempt + 1]

\* NSEDataFetcher.fetch_option_chain against the answers `resps`, one per request
RECURSIVE fetch_run(_, _)
fetch_run(f, resps) ==
    IF f.pc = "returned" \/ resps = <<>> THEN f
    ELSE fetch_run(fetch_attempt(f, Head(resps)), Tail(resps))

fetch_option_chain(symbol, resps) == fetch_run(FetchBegun(symbol), resps)

FetchInit == fetch = FetchIdle

\* a caller calls fetch_option_chain(symbol)
FetchCall ==
    /\ fetch.pc # "attempting"
    /\ \E symbol \in Symbols, flag \in BOOLEAN :
           fetch' = [FetchBegun(symbol) EXCEPT !.USE_FALLBACK_DATA = flag]
    /\ UNCHANGED <<store_vars, loop_vars, main, parse, http, csv, sched, reader>>

\* the call runs one pass of its loop
FetchAttempt ==
    /\ fetch.pc = "attempting"
    /\ \E resp \in Responses(fetch.symbol) : fetch' = fetch_attempt(fetch, resp)
    /\ UNCHANGED <<store_vars, loop_vars, main, parse, http, csv, sched, reader>>

----------------------------------------------------------------------------
(* nse_option_chain_pipeline.py: NSEHttpClient *)

MAX_RETRIES == 3        \* PipelineConfig.MAX_RETRIES

\* the answers to the request of the CSV endpoint and of the JSON endpoint
HttpResponses ==
    { Response(TRUE, 0, "empty", NoRecordsKey),
      Response(FALSE, 503, "html", NoRecordsKey),
      Response(FALSE, 200, "empty", NoRecordsKey),
      Response(FALSE, 200, "html", NoRecordsKey),
      Response(FALSE, 200, "csv", NoRecordsKey),
      Response(FALSE, 200, "json", NoRecordsKey) }

\* one pass of the loop as the log keeps it: did _initialize_session run and
\* how did it end, was the pause made, which data requests were issued and
\* what they were answered
Pass(warm, slept, requests, answers) ==
    [warm |-> warm, slept |-> slept, requests |-> requests, answers |-> answers]

\* the state of one fetch_option_chain_csv call
HttpBegun(symbol) ==
    [pc |-> "attempting", symbol |-> symbol, attempt |-> 0, log |-> <<>>,
     source |-> "none", status |-> 0, body |-> "empty"]

HttpIdle == [HttpBegun("") EXCEPT !.pc = "idle"]

\* `except Exception as e` of the pass: on the last pass the fallback CSV is
\* returned, else the loop goes on
http_attempt_failed(h, pass) ==
    IF h.attempt = MAX_RETRIES - 1
    THEN [h EXCEPT !.log = Append(h.log, pass), !.pc = "returned",
                   !.source = "fallback", !.status = 0, !.body = "csv"]
    ELSE [h EXCEPT !.log = Append(h.log, pass), !.attempt = h.attempt + 1]

\* one pass of `for attempt in range(self.config.MAX_RETRIES)`.  warm_up_ok is
\* both warm-up requests of _initialize_session succeeding; when one fails it
\* raises, and the pass ends in its `except`.
http_attempt(h, warm_up_ok, csv_resp, json_resp) ==
    LET warm == IF h.attempt = 0 THEN "none" ELSE IF warm_up_ok THEN "ok" ELSE "failed"
        slept == h.attempt > 0 /\ warm_up_ok
    IN  IF warm = "failed"
        THEN http_attempt_failed(h, Pass(warm, slept, <<>>, <<>>))
        ELSE IF ~ csv_resp.exc /\ csv_resp.status = 200 /\ csv_resp.body # "empty"
        THEN \* return response.text
             [h EXCEPT !.log = Append(h.log, Pass(warm, slept, <<"csv">>, <<csv_resp>>)),
                       !.pc = "returned", !.source = "csv",
                       !.status = csv_resp.status, !.body = csv_resp.body]
        ELSE IF /\ ~ json_resp.exc
                /\ json_resp.status < 400          \* raise_for_status
                /\ json_resp.body = "json"         \* text.strip() and response.json()
        THEN \* return self._convert_json_to_csv_format(json_data)
             [h EXCEPT !.log = Append(h.log, Pass(warm, slept, <<"csv", "json">>,
                                                        <<csv_resp, json_resp>>)),
                       !.pc = "returned", !.source = "json",
                       !.status = json_resp.status, !.body = json_resp.body]
        ELSE http_attempt_failed(h, Pass(warm, slept, <<"csv", "json">>,
                                         <<csv_resp, json_resp>>))

HttpInit == http = HttpIdle

\* a caller calls fetch_option_chain_csv(symbol)
HttpCall ==
    /\ http.pc # "attempting"
    /\ \E symbol \in Symbols : http' = HttpBegun(symbol)
    /\ UNCHANGED <<store_vars, loop_vars, fetch, main, parse, csv, sched, reader>>

\* the call runs one pass of its loop
HttpAttempt ==
    /\ http.pc = "attempting"
    /\ \E warm_up_ok \in BOOLEAN, csv_resp \in HttpResponses, json_resp \in HttpResponses :
          http' = http_attempt(http, warm_up_ok, csv_resp, json_resp)
    /\ UNCHANGED <<store_vars, loop_vars, fetch, main, parse, csv, sched, reader>>

\* what fetch_option_chain(symbol) may return
FetchOutcomes ==
    [symbol \in Symbols |->
        { fetch_option_chain(symbol, resps).data :
            resps \in [1 .. MAX_ATTEMPTS -> Responses(symbol)] }]

----------------------------------------------------------------------------
(* nse_service.py: parse_option_chain *)

\* `not strike_price`
falsy(v) ==
    \/ v.t = "none"
    \/ (v.t \in {"num", "float"} /\ v.n = 0)
    \/ (v.t = "str" /\ v.s = "")

\* f"{strike_price}" of a raw value
str(v) ==
    CASE v.t = "num" -> ToString(v.n)
      [] v.t = "float" -> ToString(v.n) \o ".0"
      [] v.t = "str" -> v.s
      [] OTHER -> "None"

\* the numbers a string of the payloads may spell
Numbers == {-5, 0, 50, 100, 25000, 25075, 25100, 48000}

\* float(s) of a string: the number it spells, with or without ".0"; None
\* stands for the ValueError of a string that spells no number
float_str(s) ==
    LET spelt == { n \in Numbers : s = ToString(n) \/ s = ToString(n) \o ".0" }
    IN  IF spelt = {} THEN None ELSE Float(CHOOSE n \in spelt : TRUE)

\* float(v); None stands for its ValueError or TypeError
float_of(v) ==
    CASE v.t \in {"num", "float"} -> Float(v.n)
      [] v.t = "str" -> float_str(v.s)
      [] OTHER -> None

\* `v is None or v == "" or v == "-"`
blank(v) == v.t = "none" \/ (v.t = "str" /\ v.s \in {"", "-"})

\* models.py validators (pre=True): blank, "-" and what float() rejects is None
validate_float(v) == IF blank(v) THEN None ELSE float_of(v)

\* NSEDataFetcher._create_option_entry: the entries it yields (none or one).
\* The entry is dropped when float(strike_price) raises and when the model
\* rejects expiry_date (no str) or underlying_value (Optional[float] with no
\* validator of its own: None or what float() accepts).  A market field that
\* is blank is not handed to the model and keeps its default, None.
create_option_entry(option_data, symbol, option_type, strike_price, expiry_date, underlying_value, fetched_at) ==
    LET value == get(option_data.lastPrice, RawNone)
    IN  IF \/ float_of(strike_price).none
           \/ expiry_date.t # "str"
           \/ (underlying_value.t # "none" /\ float_of(underlying_value).none)
        THEN <<>>
        ELSE << [symbol |-> symbol, type |-> option_type,
                 strike_price |-> float_of(strike_price).n,
                 expiry_date |-> expiry_date.s,
                 identifier |-> symbol \o "_" \o option_type \o "_" \o str(strike_price)
                                \o "_" \o str(expiry_date),
                 fetched_at |-> fetched_at,
                 last_price |-> IF blank(value) THEN None ELSE validate_float(value)] >>

\* parse_option_chain reading the clock for every record instead of once
RECURSIVE parse_rows_clock_per_record(_, _, _, _, _)
parse_rows_clock_per_record(data_list, symbol, option_type, underlying_value, fetched_at) ==
    IF data_list = <<>> THEN <<>>
    ELSE LET record == Head(data_list)
             side == IF option_type = CE THEN record.CE ELSE record.PE
             here == IF falsy(get(record.strikePrice, RawNone)) \/ ~ side.present
                     THEN <<>>
                     ELSE create_option_entry(side, symbol, option_type,
                              get(record.strikePrice, RawNone),
                              get(record.expiryDate, RawStr("")),
                              underlying_value, fetched_at)
         IN  here \o parse_rows_clock_per_record(Tail(data_list), symbol, option_type,
                                                 underlying_value, fetched_at + 1)

\* parse_option_chain, `for record in data_list`, for the options of one type
RECURSIVE parse_rows(_, _, _, _, _)
parse_rows(data_list, symbol, option_type, underlying_value, fetched_at) ==
    IF data_list = <<>> THEN <<>>
    ELSE LET record == Head(data_list)
             side == IF option_type = CE THEN record.CE ELSE record.PE
             here == IF falsy(get(record.strikePrice, RawNone)) \/ ~ side.present
                     THEN <<>>
                     ELSE create_option_entry(side, symbol, option_type,
                              get(record.strikePrice, RawNone),
                              get(record.expiryDate, RawStr("")),
                              underlying_value, fetched_at)
         IN  here \o parse_rows(Tail(data_list), symbol, option_type,
                                underlying_value, fetched_at)

\* NSEDataFetcher.parse_option_chain with fetched_at = datetime.now()
parse_option_chain(raw_data, symbol, fetched_at) ==
    IF ~ raw_data.mapping     \* records.get on something that is no dict
    THEN [raised |-> TRUE, call_options |-> <<>>, put_options |-> <<>>]
    ELSE [raised |-> FALSE,
          call_options |-> parse_rows(raw_data.data, symbol, CE,
                              get(raw_data.underlyingValue, RawNone), fetched_at),
          put_options |-> parse_rows(raw_data.data, symbol, PE,
                             get(raw_data.underlyingValue, RawNone), fetched_at)]

----------------------------------------------------------------------------
(* Calls of parse_option_chain on payloads of every shape *)

\* datetime.now(): the clock may have moved on since the last reading
Now == { t \in Times : t = clock \/ t = clock + 1 }

RawStrikes ==
    {RawNum(25000), RawNum(0), RawNum(-5), RawFloat(25000), RawStr("25000"),
     RawStr("0"), RawStr("abc"), RawStr(""), RawNone, RawMissing}

RawExpiries == {RawStr("30-Jan-2025"), RawStr(""), RawNone, RawMissing}

RawFields ==
    {RawNum(100), RawNum(0), RawStr("100"), RawStr(""), RawStr("-"), RawStr("abc"),
     RawNone, RawMissing}

RawUnderlying == {RawNum(25075), RawStr("-"), RawMissing}

Rows ==
    { Row(k, e, ce, pe) :
        k \in RawStrikes, e \in RawExpiries,
        ce \in {NoSide} \cup { Side(f) : f \in RawFields },
        pe \in {NoSide, Side(RawNum(50)), Side(RawStr("-"))} }

\* the rows that follow the first row of a chain of two
SecondRows ==
    { Row(RawNum(k), RawStr("30-Jan-2025"), Side(RawNum(100)), Side(RawNum(50))) :
        k \in {25000, 25100} }

ParsePayloads ==
    { PayloadWith(data, u) :
        data \in { <<>> } \cup { <<r>> : r \in Rows }
                 \cup { <<r, r2>> : r \in Rows, r2 \in SecondRows },
        u \in RawUnderlying }
    \cup { RecordsNotAnObject }

ParseIdle ==
    [pc |-> "idle", raw_data |-> NoRecordsKey, symbol |-> "", fetched_at |-> 0,
     raised |-> FALSE, call_options |-> <<>>, put_options |-> <<>>]

ParseInit == parse = ParseIdle

\* a caller is about to parse a payload: the arguments of the call
ParseBegun ==
    parse \in { [ParseIdle EXCEPT !.pc = "called", !.raw_data = raw_data,
                                  !.symbol = symbol] :
                  raw_data \in ParsePayloads, symbol \in Symbols }

\* parse_option_chain(raw_data, symbol) runs and returns or raises
ParseCall ==
    /\ parse.pc = "called"
    /\ \E fetched_at \in Now :
          LET parsed == parse_option_chain(parse.raw_data, parse.symbol, fetched_at)
          IN  /\ clock' = fetched_at
              /\ parse' = [parse EXCEPT !.pc = "returned",
                               !.fetched_at = fetched_at, !.raised = parsed.raised,
                               !.call_options = parsed.call_options,
                               !.put_options = parsed.put_options]
    /\ UNCHANGED <<store_vars, pipeline_vars, fetch, main, http, csv, sched, reader>>

\* the entries the last call returned
Parsed ==
    { parse.call_options[i] : i \in DOMAIN parse.call_options }
    \cup { parse.put_options[i] : i \in DOMAIN parse.put_options }

----------------------------------------------------------------------------
(* data_pipeline.py: DataPipeline and the code that starts and stops it *)

symbols == <<"NIFTY", "BANKNIFTY">>     \* DataPipeline.symbols

Never == -1                             \* last_successful_fetch = None

ZeroTotals ==
    [total_calls_inserted |-> 0, total_puts_inserted |-> 0,
     total_calls_skipped |-> 0, total_puts_skipped |-> 0]

NoCycle ==
    [symbol |-> "", raw |-> NoRecordsKey, call_options |-> <<>>, put_options |-> <<>>,
     calls_inserted |-> 0, calls_skipped |-> 0,
     entry_stats |-> ZeroTotals, entry_fetch |-> Never, entry_count |-> 0,
     refetch |-> FALSE, write_errors |-> 0]

NoResult ==
    [symbol |-> "", success |-> FALSE, error |-> "",
     calls_processed |-> 0, puts_processed |-> 0,
     calls_inserted |-> 0, puts_inserted |-> 0, calls_skipped |-> 0,
     puts_skipped |-> 0, total_processed |-> 0]

\* DataPipeline.__init__.  The caller is PipelineManager or the code of
\* example_continuous_limited (whose pipeline is NSEOptionChainPipeline, with
\* this same run_continuous loop); which of the two shows when it stops the loop.
LoopInit ==
    /\ clock = 0
    /\ running = FALSE
    /\ total_cycles = 0 /\ successful_cycles = 0 /\ failed_cycles = 0
    /\ last_successful_fetch = Never
    /\ stats = ZeroTotals
    /\ db_closes = 0
    /\ loop_pc = "idle"
    /\ sym_idx = 0
    /\ cycle_success = TRUE
    /\ cycle = NoCycle
    /\ result = NoResult
    /\ tick = <<>>
    /\ lastp = [s \in Symbols |-> NoRecordsKey]
    /\ caller = "idle"
    /\ stop_requested = FALSE

\* PipelineManager.start / example_continuous_limited: initialize() and
\* Thread(target=run_continuous).start()
Start ==
    /\ caller = "idle" /\ loop_pc = "idle"
    /\ caller' = "started"
    /\ loop_pc' = "start"
    /\ UNCHANGED <<store_vars, fetch, main, parse, http, csv, sched, reader, clock, running, total_cycles, successful_cycles,
                   failed_cycles, last_successful_fetch, stats, db_closes, sym_idx,
                   cycle_success, cycle, result, tick, lastp, stop_requested>>

\* DataPipeline._signal_handler (SIGINT, SIGTERM), installed by __init__
SignalHandler ==
    /\ loop_pc # "exited"
    /\ running' = FALSE
    /\ stop_requested' = TRUE
    /\ UNCHANGED <<store_vars, fetch, main, parse, http, csv, sched, reader, clock, total_cycles, successful_cycles, failed_cycles,
                   last_successful_fetch, stats, db_closes, loop_pc, sym_idx,
                   cycle_success, cycle, result, tick, lastp, caller>>

\* PipelineManager.stop: running = False, then thread.join(timeout=10)
ManagerStop ==
    /\ caller = "started"
    /\ running' = FALSE
    /\ stop_requested' = TRUE
    /\ caller' = "manager_stopped"
    /\ UNCHANGED <<store_vars, fetch, main, parse, http, csv, sched, reader, clock, total_cycles, successful_cycles, failed_cycles,
                   last_successful_fetch, stats, db_closes, loop_pc, sym_idx,
                   cycle_success, cycle, result, tick, lastp>>

\* example_continuous_limited: pipeline.running = False
ExampleStop ==
    /\ caller = "started"
    /\ running' = FALSE
    /\ stop_requested' = TRUE
    /\ caller' = "example_stopped"
    /\ UNCHANGED <<store_vars, fetch, main, parse, http, csv, sched, reader, clock, total_cycles, successful_cycles, failed_cycles,
                   last_successful_fetch, stats, db_closes, loop_pc, sym_idx,
                   cycle_success, cycle, result, tick, lastp>>

\* example_continuous_limited: finally: pipeline.cleanup(), without a join
ExampleCleanup ==
    /\ caller = "example_stopped"
    /\ db_closes' = db_closes + 1
    /\ caller' = "example_cleaned"
    /\ UNCHANGED <<store_vars, fetch, main, parse, http, csv, sched, reader, clock, running, total_cycles, successful_cycles,
                   failed_cycles, last_successful_fetch, stats, loop_pc, sym_idx,
                   cycle_success, cycle, result, tick, lastp, stop_requested>>

\* run_continuous: self.running = True
SetRunning ==
    /\ loop_pc = "start"
    /\ running' = TRUE
    /\ loop_pc' = "while"
    /\ UNCHANGED <<store_vars, fetch, main, parse, http, csv, sched, reader, clock, total_cycles, successful_cycles, failed_cycles,
                   last_successful_fetch, stats, db_closes, sym_idx, cycle_success,
                   cycle, result, tick, lastp, caller, stop_requested>>

\* run_continuous: `while self.running:` and the head of its body.  Only
\* MaxCycles passes are followed through their cycles; after them the loop
\* is cut off (`bounded`), or else a pass is only the time it takes.
WhileRunning(bounded) ==
    /\ loop_pc = "while"
    /\ IF ~ running
       THEN /\ loop_pc' = "finally"
            /\ UNCHANGED <<total_cycles, cycle_success, sym_idx, tick>>
       ELSE IF total_cycles < MaxCycles
       THEN /\ total_cycles' = total_cycles + 1
            /\ cycle_success' = TRUE
            /\ sym_idx' = 1
            /\ tick' = <<>>
            /\ loop_pc' = "for"
       ELSE /\ ~ bounded
            /\ loop_pc' = "sleep"
            /\ UNCHANGED <<total_cycles, cycle_success, sym_idx, tick>>
    /\ UNCHANGED <<store_vars, fetch, main, parse, http, csv, sched, reader, clock, running, successful_cycles, failed_cycles,
                   last_successful_fetch, stats, db_closes, cycle, result, lastp,
                   caller, stop_requested>>

\* run_continuous: `for symbol in self.symbols: if not self.running: break`,
\* then run_single_cycle(symbol) begins
ForSymbol ==
    /\ loop_pc = "for"
    /\ IF sym_idx > Len(symbols) \/ ~ running
       THEN /\ loop_pc' = "tick_end"
            /\ UNCHANGED cycle
       ELSE /\ loop_pc' = "fetch"
            /\ cycle' = [NoCycle EXCEPT
                   !.symbol = symbols[sym_idx], !.entry_stats = stats,
                   !.entry_fetch = last_successful_fetch,
                   !.entry_count = BagCardinality(store)]
    /\ UNCHANGED <<store_vars, fetch, main, parse, http, csv, sched, reader, clock, running, total_cycles, successful_cycles,
                   failed_cycles, last_successful_fetch, stats, db_closes, sym_idx,
                   cycle_success, result, tick, lastp, caller, stop_requested>>

\* a failed cycle that ends the pass: the later symbols are not processed
CycleFailedBreaks(error) ==
    /\ result' = [NoResult EXCEPT !.symbol = cycle.symbol, !.error = error]
    /\ cycle_success' = FALSE
    /\ tick' = Append(tick, FALSE)
    /\ sym_idx' = sym_idx + 1
    /\ loop_pc' = "tick_end"
    /\ lastp' = [lastp EXCEPT ![cycle.symbol] = NoRecordsKey]
    /\ UNCHANGED <<stats, last_successful_fetch>>

\* a failed cycle that records the time of the fetch all the same
CycleFailedCounts(error) ==
    /\ result' = [NoResult EXCEPT !.symbol = cycle.symbol, !.error = error]
    /\ cycle_success' = FALSE
    /\ tick' = Append(tick, FALSE)
    /\ sym_idx' = sym_idx + 1
    /\ loop_pc' = "for"
    /\ lastp' = [lastp EXCEPT ![cycle.symbol] = NoRecordsKey]
    /\ last_successful_fetch' = clock
    /\ UNCHANGED stats

\* run_single_cycle, `except Exception`: the failed result; run_continuous,
\* lines 159-160: cycle_success = False, and on to the next symbol
CycleFailed(error) ==
    /\ result' = [NoResult EXCEPT !.symbol = cycle.symbol, !.error = error]
    /\ cycle_success' = FALSE
    /\ tick' = Append(tick, FALSE)
    /\ sym_idx' = sym_idx + 1
    /\ loop_pc' = "for"
    /\ lastp' = [lastp EXCEPT ![cycle.symbol] = NoRecordsKey]
    /\ UNCHANGED <<stats, last_successful_fetch>>

\* run_single_cycle: nse_fetcher.fetch_and_parse(symbol)
FetchAndParse ==
    /\ loop_pc = "fetch"
    /\ \E raw_data \in FetchOutcomes[cycle.symbol], fetched_at \in Now :
        LET parsed == parse_option_chain(raw_data, cycle.symbol, fetched_at)
        IN  /\ clock' = fetched_at
            /\ IF parsed.raised
               THEN /\ CycleFailed("parse")
                    /\ UNCHANGED cycle
               ELSE /\ cycle' = [cycle EXCEPT
                          !.raw = raw_data,
                          !.call_options = parsed.call_options,
                          !.put_options = parsed.put_options,
                          !.refetch = (raw_data = lastp[cycle.symbol])]
                    /\ loop_pc' = "store_calls"
                    /\ UNCHANGED <<result, cycle_success, tick, sym_idx, stats,
                                   last_successful_fetch, lastp>>
    /\ UNCHANGED <<store_vars, fetch, main, parse, http, csv, sched, reader, running, total_cycles, successful_cycles,
                   failed_cycles, db_closes, caller, stop_requested>>

\* store_option_data: the insert of the CALL options
StoreCalls(faults) ==
    /\ loop_pc = "store_calls"
    /\ \E fault \in faults :
        LET c == bulk_insert_with_dedup(store, cycle.call_options, fault)
        IN  /\ store' = c.coll
            /\ IF c.raised
               THEN /\ CycleFailed("store")
                    /\ UNCHANGED cycle
               ELSE /\ cycle' = [cycle EXCEPT !.calls_inserted = c.inserted,
                                              !.calls_skipped = c.skipped,
                                              !.write_errors = c.write_errors]
                    /\ loop_pc' = "store_puts"
                    /\ UNCHANGED <<result, cycle_success, tick, sym_idx, stats,
                                   last_successful_fetch, lastp>>
    /\ UNCHANGED <<db_op, fetch, main, parse, http, csv, sched, reader, clock, running, total_cycles, successful_cycles,
                   failed_cycles, db_closes, caller, stop_requested>>

\* store_option_data: the insert of the PUT options; then run_single_cycle
\* adds to the statistics and returns, and run_continuous goes on
StorePuts(faults) ==
    /\ loop_pc = "store_puts"
    /\ \E fault \in faults :
        LET p == bulk_insert_with_dedup(store, cycle.put_options, fault)
        IN  /\ store' = p.coll
            /\ cycle' = [cycle EXCEPT !.write_errors = @ + p.write_errors]
            /\ IF p.raised
               THEN CycleFailed("store")
               ELSE /\ stats' =
                        [total_calls_inserted |->
                             stats.total_calls_inserted + cycle.calls_inserted,
                         total_puts_inserted |->
                             stats.total_puts_inserted + p.inserted,
                         total_calls_skipped |->
                             stats.total_calls_skipped + cycle.calls_skipped,
                         total_puts_skipped |->
                             stats.total_puts_skipped + p.skipped]
                    /\ last_successful_fetch' = clock
                    /\ result' = [NoResult EXCEPT
                           !.symbol = cycle.symbol, !.success = TRUE,
                           !.calls_processed = Len(cycle.call_options),
                           !.puts_processed = Len(cycle.put_options),
                           !.calls_inserted = cycle.calls_inserted,
                           !.puts_inserted = p.inserted,
                           !.calls_skipped = cycle.calls_skipped,
                           !.puts_skipped = p.skipped,
                           !.total_processed =
                               Len(cycle.call_options) + Len(cycle.put_options)]
                    /\ lastp' = [lastp EXCEPT ![cycle.symbol] = cycle.raw]
                    /\ tick' = Append(tick, TRUE)
                    /\ sym_idx' = sym_idx + 1
                    /\ loop_pc' = "for"
                    /\ UNCHANGED cycle_success
    /\ UNCHANGED <<db_op, fetch, main, parse, http, csv, sched, reader, clock, running, total_cycles, successful_cycles,
                   failed_cycles, db_closes, caller, stop_requested>>

\* the end of a pass that leaves a failed pass uncounted
TickEndFailedUncounted ==
    /\ loop_pc = "tick_end"
    /\ IF cycle_success
       THEN /\ successful_cycles' = successful_cycles + 1
            /\ UNCHANGED failed_cycles
       ELSE UNCHANGED <<successful_cycles, failed_cycles>>
    /\ loop_pc' \in {"sleep", "while"}
    /\ cycle' = NoCycle /\ result' = NoResult /\ tick' = <<>>     \* out of scope
    /\ UNCHANGED <<store_vars, fetch, main, parse, http, csv, sched, reader, clock, running, total_cycles, last_successful_fetch,
                   stats, db_closes, sym_idx, cycle_success, lastp, caller,
                   stop_requested>>

\* the end of a pass that counts it by the result of its last cycle alone
TickEndLastResult ==
    /\ loop_pc = "tick_end"
    /\ IF tick = <<>> \/ result.success
       THEN /\ successful_cycles' = successful_cycles + 1
            /\ UNCHANGED failed_cycles
       ELSE /\ failed_cycles' = failed_cycles + 1
            /\ UNCHANGED successful_cycles
    /\ loop_pc' \in {"sleep", "while"}
    /\ cycle' = NoCycle /\ result' = NoResult /\ tick' = <<>>     \* out of scope
    /\ UNCHANGED <<store_vars, fetch, main, parse, http, csv, sched, reader, clock, running, total_cycles, last_successful_fetch,
                   stats, db_closes, sym_idx, cycle_success, lastp, caller,
                   stop_requested>>

\* run_continuous, lines 166-184: count the pass, then sleep what is left of
\* fetch_interval, or warn and go on when nothing is left
TickEnd ==
    /\ loop_pc = "tick_end"
    /\ IF cycle_success
       THEN /\ successful_cycles' = successful_cycles + 1
            /\ UNCHANGED failed_cycles
       ELSE /\ failed_cycles' = failed_cycles + 1
            /\ UNCHANGED successful_cycles
    /\ loop_pc' \in {"sleep", "while"}
    /\ cycle' = NoCycle /\ result' = NoResult /\ tick' = <<>>     \* out of scope
    /\ UNCHANGED <<store_vars, fetch, main, parse, http, csv, sched, reader, clock, running, total_cycles, last_successful_fetch,
                   stats, db_closes, sym_idx, cycle_success, lastp, caller,
                   stop_requested>>

\* time.sleep(sleep_time) returns
Wake ==
    /\ loop_pc = "sleep"
    /\ loop_pc' = "while"
    /\ UNCHANGED <<store_vars, fetch, main, parse, http, csv, sched, reader, clock, running, total_cycles, successful_cycles,
                   failed_cycles, last_successful_fetch, stats, db_closes, sym_idx,
                   cycle_success, cycle, result, tick, lastp, caller, stop_requested>>

\* run_continuous, finally: cleanup(), which closes the database connection
Cleanup ==
    /\ loop_pc = "finally"
    /\ db_closes' = db_closes + 1
    /\ loop_pc' = "exited"
    /\ UNCHANGED <<store_vars, fetch, main, parse, http, csv, sched, reader, clock, running, total_cycles, successful_cycles,
                   failed_cycles, last_successful_fetch, stats, sym_idx,
                   cycle_success, cycle, result, tick, lastp, caller, stop_requested>>

\* the steps of the thread that runs run_continuous
LoopThread(bounded, faults) ==
    \/ SetRunning
    \/ WhileRunning(bounded)
    \/ ForSymbol
    \/ FetchAndParse
    \/ StoreCalls(faults)
    \/ StorePuts(faults)
    \/ TickEnd
    \/ Wake
    \/ Cleanup

----------------------------------------------------------------------------
(* main.py and fetch_option_chain.py: the application that scrapes the symbols
   asked for through GET /option-chain *)

\* a thread of main.py and the fetch_main call it is in, if any
NoCall == [pc |-> "idle", symbol |-> "", idx |-> 0, ts |-> 0]

\* module level of main.py: the collections, symbols_to_track = [] and
\* Thread(target=periodic_scraper, daemon=True).start()
MainInit ==
    main = [symbols_to_track |-> <<>>,
            scraper |-> [NoCall EXCEPT !.pc = "for", !.idx = 1],
            handler |-> NoCall,
            ce_col |-> {}, pe_col |-> {}]

\* fetch_main is between its upstream request and the end of its store
InFetchMain(thread) == thread.pc \in {"fetch", "store"}

\* the upstream requests in flight
InFlight == Cardinality({ t \in {"scraper", "handler"} : main[t].pc = "fetch" })

\* flatten_chain and store_to_mongo: the key of the documents of the one row
\* of the chain under the unique index (strikePrice, expiryDate, fetchedAt)
chain_key(ts) == <<25000, "30-Jan-2025", ts>>

\* GET /option-chain arrives and a worker thread takes it
Request ==
    /\ main.handler.pc = "idle"
    /\ \E symbol \in Symbols :
           main' = [main EXCEPT !.handler = [NoCall EXCEPT !.pc = "getId",
                                                           !.symbol = symbol]]
    /\ UNCHANGED <<store_vars, loop_vars, fetch, parse, http, csv, sched, reader>>

\* option_chain: getId(company_name), which may raise, then the symbol is
\* tracked from now on
HandlerGetId ==
    /\ main.handler.pc = "getId"
    /\ \/ main' = [main EXCEPT !.handler = NoCall]
       \/ LET symbol == main.handler.symbol
              tracked == \E i \in 1 .. Len(main.symbols_to_track) :
                             main.symbols_to_track[i] = symbol
          IN  main' = [main EXCEPT
                  !.symbols_to_track = IF tracked THEN @ ELSE Append(@, symbol),
                  !.handler.pc = "fetch"]
    /\ UNCHANGED <<store_vars, loop_vars, fetch, parse, http, csv, sched, reader>>

\* option_chain: fetch_main(symbol), its fetch_option_chain and flatten_chain;
\* an exception ends the request with an error status
HandlerFetch ==
    /\ main.handler.pc = "fetch"
    /\ \/ /\ main' = [main EXCEPT !.handler = NoCall]
          /\ UNCHANGED clock
       \/ \E ts \in Now :
             /\ clock' = ts
             /\ main' = [main EXCEPT !.handler.pc = "store", !.handler.ts = ts]
    /\ UNCHANGED <<store_vars, pipeline_vars, fetch, parse, http, csv, sched, reader>>

\* option_chain: fetch_main(symbol), its store_to_mongo; duplicates are passed over
HandlerStore ==
    /\ main.handler.pc = "store"
    /\ main' = [main EXCEPT !.ce_col = @ \cup {chain_key(main.handler.ts)},
                            !.pe_col = @ \cup {chain_key(main.handler.ts)},
                            !.handler = NoCall]
    /\ UNCHANGED <<store_vars, loop_vars, fetch, parse, http, csv, sched, reader>>

\* periodic_scraper: `for symbol in symbols_to_track`
ScraperFor ==
    /\ main.scraper.pc = "for"
    /\ main' = [main EXCEPT !.scraper.pc =
                    IF main.scraper.idx > Len(main.symbols_to_track)
                    THEN "sleep" ELSE "fetch"]
    /\ UNCHANGED <<store_vars, loop_vars, fetch, parse, http, csv, sched, reader>>

\* periodic_scraper: fetch_main(symbol), its fetch_option_chain and
\* flatten_chain; an exception is printed and the next symbol follows
ScraperFetch ==
    /\ main.scraper.pc = "fetch"
    /\ \/ /\ main' = [main EXCEPT !.scraper.pc = "for", !.scraper.idx = @ + 1]
          /\ UNCHANGED clock
       \/ \E ts \in Now :
             /\ clock' = ts
             /\ main' = [main EXCEPT !.scraper.pc = "store", !.scraper.ts = ts]
    /\ UNCHANGED <<store_vars, pipeline_vars, fetch, parse, http, csv, sched, reader>>

\* periodic_scraper: fetch_main(symbol), its store_to_mongo
ScraperStore ==
    /\ main.scraper.pc = "store"
    /\ main' = [main EXCEPT !.ce_col = @ \cup {chain_key(main.scraper.ts)},
                            !.pe_col = @ \cup {chain_key(main.scraper.ts)},
                            !.scraper.pc = "for", !.scraper.idx = @ + 1]
    /\ UNCHANGED <<store_vars, loop_vars, fetch, parse, http, csv, sched, reader>>

\* periodic_scraper: time.sleep(5) returns
ScraperWake ==
    /\ main.scraper.pc = "sleep"
    /\ main' = [main EXCEPT !.scraper.pc = "for", !.scraper.idx = 1]
    /\ UNCHANGED <<store_vars, loop_vars, fetch, parse, http, csv, sched, reader>>

----------------------------------------------------------------------------
(* nse_option_chain_pipeline.py: the CSV text, OptionChainParser, MongoDBStorage *)

\* a data row of the CSV text, cell by cell as the text spells them: STRIKE,
\* and LTP and LTP_1 (the column pandas names "LTP.1") for the ten CALL and the
\* ten PUT columns, which the code treats alike
CsvRow(LTP, STRIKE, LTP_1) == [LTP |-> LTP, STRIKE |-> STRIKE, LTP_1 |-> LTP_1]

\* the two header rows and the data rows that follow them
CsvText(rows) == [raised |-> FALSE, rows |-> rows]

\* NSEHttpClient._convert_json_to_csv_format: a row of the text per row of
\* records.data, an absent or falsy value as an empty cell; the expiry date
\* of the row is not written.  It raises when "records" holds no object.
convert_json_to_csv_format(json_data) ==
    LET cell(val) == IF falsy(val) THEN "" ELSE str(val)
        of(side) == IF side.present THEN get(side.lastPrice, RawStr("")) ELSE RawStr("")
        line(record) ==
            CsvRow(cell(of(record.CE)),
                   cell(RawStr(str(get(record.strikePrice, RawStr(""))))),
                   cell(of(record.PE)))
    IN  IF json_data.has_records /\ ~ json_data.mapping
        THEN [raised |-> TRUE, rows |-> <<>>]
        ELSE CsvText([i \in DOMAIN json_data.data |-> line(json_data.data[i])])

\* a cell pandas reads as a missing value
NaN == [t |-> "nan", n |-> 0, s |-> ""]

\* pd.read_csv on one column: an empty cell is NaN; the others are numbers when
\* every one of them spells a number (int64 if none is missing and none has a
\* decimal point, else float64), and stay strings otherwise
read_csv_column(cells) ==
    LET present == { i \in DOMAIN cells : cells[i] # "" }
        numeric == \A i \in present : ~ float_str(cells[i]).none
        int64 == /\ present = DOMAIN cells
                 /\ \A i \in present : cells[i] = ToString(float_str(cells[i]).n)
    IN  [i \in DOMAIN cells |->
            IF i \notin present THEN NaN
            ELSE IF ~ numeric THEN RawStr(cells[i])
            ELSE IF int64 THEN RawNum(float_str(cells[i]).n)
            ELSE RawFloat(float_str(cells[i]).n)]

\* pd.read_csv(StringIO(csv_data), header=1): the data frame, row by row
read_csv(csv_data) ==
    LET col(f) == read_csv_column([i \in DOMAIN csv_data |-> csv_data[i][f]])
    IN  [i \in DOMAIN csv_data |->
            CsvRow(col("LTP")[i], col("STRIKE")[i], col("LTP_1")[i])]

\* a cell with its commas left where they are
keep_comma(s) == s

\* value.replace(",", "") on the cells of the texts
replace_comma(s) ==
    CASE s = "25,100" -> "25100"
      [] s = "25,000" -> "25000"
      [] OTHER -> s

\* pd.to_numeric(df["STRIKE"].astype(str).str.replace(",", ""), errors="coerce")
\* on one value: None stands for the NaN of a value that spells no number
to_numeric(value) == float_str(replace_comma(str(value)))

\* parse_csv_to_documents: the rows left once those whose STRIKE is NaN, empty
\* or no number are dropped, STRIKE converted
numeric_strikes(df) ==
    LET kept(row) == /\ row.STRIKE # NaN
                     /\ row.STRIKE # RawStr("")
                     /\ ~ to_numeric(row.STRIKE).none
        rows == SelectSeq(df, kept)
    IN  [i \in DOMAIN rows |-> [rows[i] EXCEPT !.STRIKE = RawNum(to_numeric(rows[i].STRIKE).n)]]

\* OptionChainParser._create_option_document: the document, or no document
\* when no mapped column of the row holds a value (`len(doc) > 4`)
create_option_document(value, symbol, option_type, strike_price, fetched_at) ==
    LET doc(last_traded_price) ==
            [symbol |-> symbol, type |-> option_type, strike_price |-> strike_price,
             fetched_at |-> fetched_at, last_traded_price |-> last_traded_price]
        cleaned_value == replace_comma(value.s)
    IN  IF value = NaN \/ value = RawStr("") \/ value = RawStr("-") THEN <<>>
        ELSE IF value.t # "str" THEN << doc(value) >>
        ELSE IF float_str(cleaned_value).none THEN << doc(RawStr(cleaned_value)) >>
        ELSE << doc(RawFloat(float_str(cleaned_value).n)) >>

\* OptionChainParser._transform_to_documents, one side of it
RECURSIVE transform_to_documents(_, _, _, _)
transform_to_documents(df, symbol, option_type, fetched_at) ==
    IF df = <<>> THEN <<>>
    ELSE LET row == Head(df)
         IN  create_option_document(IF option_type = "CALL" THEN row.LTP ELSE row.LTP_1,
                                    symbol, option_type, row.STRIKE.n, fetched_at)
             \o transform_to_documents(Tail(df), symbol, option_type, fetched_at)

\* OptionChainParser.parse_csv_to_documents
parse_csv_to_documents(csv_data, symbol, fetched_at) ==
    LET df == numeric_strikes(read_csv(csv_data))
    IN  [call_docs |-> transform_to_documents(df, symbol, "CALL", fetched_at),
         put_docs |-> transform_to_documents(df, symbol, "PUT", fetched_at)]

\* MongoDBStorage._setup_indexes: dedup_index, unique over (symbol, type,
\* strike_price, fetched_at)
mongo_dedup_index(doc) == <<doc.symbol, doc.type, doc.strike_price, doc.fetched_at>>

\* collection.insert_many(documents, ordered=False) under that index
RECURSIVE mongo_insert_many(_, _)
mongo_insert_many(coll, documents) ==
    IF documents = <<>> THEN [coll |-> coll, nInserted |-> 0]
    ELSE LET doc  == Head(documents)
             dup  == \E x \in BagToSet(coll) : mongo_dedup_index(x) = mongo_dedup_index(doc)
             rest == mongo_insert_many(IF dup THEN coll ELSE coll (+) SetToBag({doc}),
                                       Tail(documents))
         IN  [coll |-> rest.coll,
              nInserted |-> rest.nInserted + (IF dup THEN 0 ELSE 1)]

\* MongoDBStorage.store_option_data with _bulk_insert_with_dedup: the
\* collection afterwards and the statistics returned
mongo_store_option_data(coll, call_docs, put_docs) ==
    LET c == mongo_insert_many(coll, call_docs)
        p == mongo_insert_many(c.coll, put_docs)
    IN  [coll |-> p.coll,
         stats |-> [calls_inserted |-> c.nInserted, puts_inserted |-> p.nInserted,
                    calls_skipped |-> Len(call_docs) - c.nInserted,
                    puts_skipped |-> Len(put_docs) - p.nInserted]]

\* the documents of a list as a bag
RECURSIVE BagOfSeq(_)
BagOfSeq(documents) ==
    IF documents = <<>> THEN EmptyBag
    ELSE SetToBag({Head(documents)}) (+) BagOfSeq(Tail(documents))

\* MockCollection.insert_many: the documents are appended, all of them
mock_insert_many(coll, documents) ==
    [coll |-> coll (+) BagOfSeq(documents), nInserted |-> Len(documents)]

\* MongoDBStorage.store_option_data over the MockCollection that _connect
\* puts in place of the collection when MongoDB cannot be reached
mock_store_option_data(coll, call_docs, put_docs) ==
    LET c == mock_insert_many(coll, call_docs)
        p == mock_insert_many(c.coll, put_docs)
    IN  [coll |-> p.coll,
         stats |-> [calls_inserted |-> c.nInserted, puts_inserted |-> p.nInserted,
                    calls_skipped |-> Len(call_docs) - c.nInserted,
                    puts_skipped |-> Len(put_docs) - p.nInserted]]

\* the cells of the texts upstream answers with
StrikeCells == {"", "abc", "25000", "25,100"}
CallCells == {"", "-", "100", "abc"}
PutCells == {"", "-", "50"}

CsvRows == { CsvRow(c, k, q) : c \in CallCells, k \in StrikeCells, q \in PutCells }

\* upstream answers the CSV request with a text of up to two data rows
CsvTexts == { <<>> } \cup { <<r>> : r \in CsvRows } \cup { <<r, r2>> : r, r2 \in CsvRows }

\* the rows of the chains upstream answers the JSON request with: a strike at
\* each of two expiry dates
JsonRows ==
    { Row(RawNum(k), RawStr(e), ce, pe) :
        k \in {25000, 25100}, e \in {"30-Jan-2025", "27-Feb-2025"},
        ce \in {NoSide, Side(RawNum(100)), Side(RawNum(0))},
        pe \in {NoSide, Side(RawNum(50))} }

JsonPayloads ==
    { Payload(data) :
        data \in { <<>> } \cup { <<r>> : r \in JsonRows }
                 \cup { <<r, r2>> : r, r2 \in JsonRows } }
    \cup { RecordsNotAnObject }

NoCsvStats ==
    [calls_inserted |-> 0, puts_inserted |-> 0, calls_skipped |-> 0, puts_skipped |-> 0]

CsvIdle ==
    [pc |-> "idle", symbol |-> "", source |-> "none", json_data |-> NoRecordsKey,
     csv_data |-> <<>>, fetched_at |-> 0, call_docs |-> <<>>, put_docs |-> <<>>,
     stats |-> NoCsvStats, collection |-> EmptyBag, mock |-> FALSE]

CsvInit == csv = CsvIdle

\* NSEOptionChainPipeline.run_single_cycle is called, and upstream has its
\* answer to the CSV request or to the JSON request; `mock` is MongoDBStorage
\* having failed to connect and put the MockCollection in place
CsvBegun ==
    csv \in { [CsvIdle EXCEPT !.pc = "fetching", !.symbol = symbol, !.source = "csv",
                              !.csv_data = text, !.mock = mock] :
                symbol \in Symbols, text \in CsvTexts, mock \in BOOLEAN }
       \cup { [CsvIdle EXCEPT !.pc = "fetching", !.symbol = symbol, !.source = "json",
                              !.json_data = json_data, !.mock = mock] :
                symbol \in Symbols, json_data \in JsonPayloads, mock \in BOOLEAN }

\* NSEHttpClient._get_fallback_csv_data where the working directory holds no
\* option-chain.csv: the two header rows
get_fallback_csv_data == <<>>

\* run_single_cycle, step 1: fetch_option_chain_csv returns the text, or the
\* chain converted to one; a chain whose conversion raises fails the attempt,
\* and the last attempt returns the fallback text
CsvFetch ==
    /\ csv.pc = "fetching"
    /\ LET text == IF csv.source = "csv" THEN CsvText(csv.csv_data)
                   ELSE convert_json_to_csv_format(csv.json_data)
       IN  csv' = [csv EXCEPT !.pc = "fetched",
                              !.source = IF text.raised THEN "fallback" ELSE @,
                              !.csv_data = IF text.raised THEN get_fallback_csv_data
                                           ELSE text.rows]
    /\ UNCHANGED <<store_vars, loop_vars, fetch, main, parse, http, sched, reader>>

\* run_single_cycle, step 2: parse_csv_to_documents
CsvParse ==
    /\ csv.pc = "fetched"
    /\ \E fetched_at \in Now :
          LET docs == parse_csv_to_documents(csv.csv_data, csv.symbol, fetched_at)
          IN  /\ clock' = fetched_at
              /\ csv' = [csv EXCEPT !.pc = "parsed", !.fetched_at = fetched_at,
                                    !.call_docs = docs.call_docs,
                                    !.put_docs = docs.put_docs]
    /\ UNCHANGED <<store_vars, pipeline_vars, fetch, main, parse, http, sched, reader>>

\* run_single_cycle, step 3: store_option_data, and the return of the statistics
CsvStore ==
    /\ csv.pc = "parsed"
    /\ LET stored == IF csv.mock
                     THEN mock_store_option_data(csv.collection, csv.call_docs,
                                                 csv.put_docs)
                     ELSE mongo_store_option_data(csv.collection, csv.call_docs,
                                                  csv.put_docs)
       IN  csv' = [csv EXCEPT !.pc = "returned", !.collection = stored.coll,
                              !.stats = stored.stats]
    /\ UNCHANGED <<store_vars, loop_vars, fetch, main, parse, http, sched, reader>>

----------------------------------------------------------------------------
(* data_pipeline.py: get_status and is_running, called from another thread *)

\* `self.stats`: the dict of the pipeline itself
dict_alias(d) == [live |-> TRUE, value |-> d]

\* `self.stats.copy()`: a dict of its own, holding the values of that moment
dict_copy(d) == [live |-> FALSE, value |-> d]

\* what reading the dict gives
deref(ref) == IF ref.live THEN stats ELSE ref.value

\* success_rate as a fraction: n / d per cent
Rate(n, d) == [n |-> n, d |-> d]

\* no call of get_status yet.  pc is the attribute the call reads next;
\* numerator holds self.successful_cycles between the two reads of the division.
\* Of the dict returned, the entries the counters and the statistics feed are
\* kept; "running", "last_successful_fetch", "symbols" and "fetch_interval"
\* are read and not kept.
StatusIdle ==
    [pc |-> "idle", total_cycles |-> 0, successful_cycles |-> 0,
     failed_cycles |-> 0, numerator |-> 0, success_rate |-> Rate(0, 1),
     statistics |-> dict_copy(ZeroTotals)]

StatusInit == reader = StatusIdle

\* get_status evaluating the next entry of the dict it returns, attribute by
\* attribute in the order of the source, without the test of total_cycles
get_status_unguarded(s) ==
    CASE s.pc = "total_cycles" ->
            [s EXCEPT !.total_cycles = total_cycles, !.pc = "successful_cycles"]
      [] s.pc = "successful_cycles" ->
            [s EXCEPT !.successful_cycles = successful_cycles, !.pc = "failed_cycles"]
      [] s.pc = "failed_cycles" ->
            [s EXCEPT !.failed_cycles = failed_cycles, !.pc = "if_total_cycles"]
      [] s.pc = "if_total_cycles" -> [s EXCEPT !.pc = "numerator"]
      [] s.pc = "numerator" ->
            [s EXCEPT !.numerator = successful_cycles, !.pc = "denominator"]
      [] s.pc = "denominator" ->
            IF total_cycles = 0 THEN [s EXCEPT !.pc = "ZeroDivisionError"]
            ELSE [s EXCEPT !.success_rate = Rate(s.numerator * 100, total_cycles),
                           !.numerator = 0, !.pc = "statistics"]
      [] s.pc = "statistics" ->
            [s EXCEPT !.statistics = dict_copy(stats), !.pc = "returned"]
      [] OTHER -> s

\* DataPipeline.get_status evaluating the next entry of the dict it returns,
\* attribute by attribute in the order of the source
get_status(s) ==
    IF s.pc = "if_total_cycles"
    THEN \* `if self.total_cycles > 0 else 0`
         IF total_cycles > 0 THEN [s EXCEPT !.pc = "numerator"]
         ELSE [s EXCEPT !.success_rate = Rate(0, 1), !.pc = "statistics"]
    ELSE get_status_unguarded(s)

\* PipelineManager.get_status is called, by a thread other than the loop's
GetStatusCall ==
    /\ reader.pc = "idle"
    /\ reader' = [reader EXCEPT !.pc = "total_cycles"]
    /\ UNCHANGED <<store_vars, loop_vars, fetch, main, parse, http, csv, sched>>

\* the call reads the next attribute; after the last it returns the dict
GetStatus ==
    /\ reader.pc \notin {"idle", "returned", "ZeroDivisionError"}
    /\ reader' = get_status(reader)
    /\ UNCHANGED <<store_vars, loop_vars, fetch, main, parse, http, csv, sched>>

\* PipelineManager.is_running: the thread is alive and pipeline.running is set
is_running == loop_pc \notin {"idle", "exited"} /\ running

----------------------------------------------------------------------------
(* data_pipeline.py, nse_option_chain_pipeline.py: the sleep of run_continuous *)

fetch_interval == 5     \* DataPipeline.fetch_interval, in seconds
MaxNow == 12            \* the time, in seconds, up to which the loop is followed

\* the seconds the cycles of one pass may take
CycleTimes == 0 .. fetch_interval + 1

\* the seconds time.sleep may return late
Oversleep == {0, 1}

max(a, b) == IF a > b THEN a ELSE b

\* `self.fetch_interval - cycle_time`, not held at 0
sleep_time_unclamped(cycle_time) == fetch_interval - cycle_time

\* `max(0, self.fetch_interval - cycle_time)`
sleep_time_of(cycle_time) == max(0, fetch_interval - cycle_time)

\* run_continuous has set running and stands before `while self.running`.
\* now is the time; cycle_start, cycle_time and sleep_time are the locals of
\* the pass; last_start is cycle_start of the pass before; asked is what
\* time.sleep was last called with, and warned is the pass having logged
\* "Cycle took ... longer than interval".
SchedInit ==
    sched = [pc |-> "while", running |-> TRUE, now |-> 0, cycle_start |-> Never,
             last_start |-> Never, cycle_time |-> Never, sleep_time |-> Never,
             asked |-> Never, warned |-> FALSE]

\* `while self.running:` and `cycle_start = time.time()`, or the loop ends
SchedWhile ==
    /\ sched.pc = "while"
    /\ sched' = IF sched.running
                THEN [sched EXCEPT !.pc = "cycles", !.cycle_start = sched.now,
                                   !.last_start = sched.cycle_start,
                                   !.cycle_time = Never, !.sleep_time = Never,
                                   !.asked = Never, !.warned = FALSE]
                ELSE [sched EXCEPT !.pc = "done"]
    /\ UNCHANGED <<store_vars, loop_vars, fetch, main, parse, http, csv, reader>>

\* the cycles of the pass run and take their time; then cycle_time and
\* sleep_time are computed, and the pass goes to sleep or logs the warning
SchedCycles ==
    /\ sched.pc = "cycles"
    /\ \E taken \in CycleTimes :
          /\ sched.now + taken <= MaxNow
          /\ LET cycle_time == sched.now + taken - sched.cycle_start
                 sleep_time == sleep_time_of(cycle_time)
             IN  sched' = [sched EXCEPT !.now = sched.now + taken,
                                        !.cycle_time = cycle_time,
                                        !.sleep_time = sleep_time,
                                        !.pc = IF sleep_time > 0 THEN "sleep" ELSE "while",
                                        !.warned = ~ (sleep_time > 0)]
    /\ UNCHANGED <<store_vars, loop_vars, fetch, main, parse, http, csv, reader>>

\* `time.sleep(sleep_time)`: it returns no sooner than asked
SchedSleep ==
    /\ sched.pc = "sleep"
    /\ \E late \in Oversleep :
          /\ sched.now + sched.sleep_time + late <= MaxNow
          /\ sched' = [sched EXCEPT !.pc = "while", !.asked = sched.sleep_time,
                                    !.now = sched.now + sched.sleep_time + late]
    /\ UNCHANGED <<store_vars, loop_vars, fetch, main, parse, http, csv, reader>>

\* _signal_handler or stop(): running is set to False, whatever the loop does
SchedStop ==
    /\ sched.running
    /\ sched.pc # "done"
    /\ sched' = [sched EXCEPT !.running = FALSE]
    /\ UNCHANGED <<store_vars, loop_vars, fetch, main, parse, http, csv, reader>>

----------------------------------------------------------------------------
Init == StoreInit /\ FetchInit /\ LoopInit /\ MainInit /\ ParseInit /\ HttpInit /\ CsvInit /\ SchedInit /\ StatusInit

HttpNext == HttpCall \/ HttpAttempt

HttpSpec == Init /\ [][HttpNext]_vars

\* parse_option_chain called once on each payload
ParseStart ==
    StoreInit /\ FetchInit /\ LoopInit /\ MainInit /\ HttpInit /\ CsvInit /\ SchedInit /\ StatusInit /\ ParseBegun

CsvStart ==
    StoreInit /\ FetchInit /\ LoopInit /\ MainInit /\ HttpInit /\ ParseInit /\ SchedInit /\ StatusInit
    /\ CsvBegun

CsvNext == CsvFetch \/ CsvParse \/ CsvStore

\* one cycle of NSEOptionChainPipeline on each answer upstream may give
CsvSpec == CsvStart /\ [][CsvNext]_vars

StatusNext ==
    Start \/ ManagerStop \/ LoopThread(TRUE, {"none"}) \/ GetStatusCall \/ GetStatus

\* the loop thread and a thread that calls get_status once, at any moment
StatusSpec == Init /\ [][StatusNext]_vars

SleepNext == SchedWhile \/ SchedCycles \/ SchedSleep \/ SchedStop

\* the passes of the while loop of run_continuous against the time
SleepSpec == Init /\ [][SleepNext]_vars

ParseNext == ParseCall

ParseSpec == ParseStart /\ [][ParseNext]_vars

\* the pipeline under PipelineManager with a store that may reject documents
\* for reasons other than the unique index
WriteErrorNext == Start \/ ManagerStop \/ LoopThread(TRUE, Faults)

WriteErrorSpec == Init /\ [][WriteErrorNext]_vars

\* nse_backend_app.py: the pipeline runs in its thread while GET
\* /api/option-chain/{symbol} reads the latest snapshot
\* the handler of the request returns what it read
ApiRespond ==
    /\ db_op.op = "latest"
    /\ db_op' = NoOp
    /\ UNCHANGED <<store, loop_vars, fetch, main, parse, http, csv, sched, reader>>

\* What a request read is history only, no step of the pipeline depends on
\* it: the response is delivered before the next step is looked at.
AppNext ==
    \/ db_op.op = "none" /\ (Start \/ ManagerStop \/ LoopThread(TRUE, DuplicateKeyOnly))
    \/ db_op.op = "none" /\ GetLatestOptionData
    \/ ApiRespond

AppSpec == Init /\ [][AppNext]_vars

MainNext ==
    \/ Request \/ HandlerGetId \/ HandlerFetch \/ HandlerStore
    \/ ScraperFor \/ ScraperFetch \/ ScraperStore \/ ScraperWake

MainSpec == Init /\ [][MainNext]_vars

\* the DatabaseService API called directly, the pipeline not started
StoreNext == StoreOptionData \/ GetLatestOptionData

StoreSpec == Init /\ [][StoreNext]_vars

\* the read endpoint of nse_backend_app.py over a store that callers fill
ApiNext == StoreOptionData \/ GetOptionChain

ApiSpec == Init /\ [][ApiNext]_vars

\* the pipeline run by PipelineManager in a process that may be signalled
Next == Start \/ SignalHandler \/ ManagerStop \/ LoopThread(TRUE, DuplicateKeyOnly)

Spec == Init /\ [][Next]_vars

\* the pipeline run by example_continuous_limited
ExampleNext == Start \/ ExampleStop \/ ExampleCleanup \/ LoopThread(TRUE, DuplicateKeyOnly)

ExampleSpec == Init /\ [][ExampleNext]_vars

\* fetch_option_chain called again and again, pass by pass
FetchNext == FetchCall \/ FetchAttempt

FetchSpec == Init /\ [][FetchNext]_vars

\* the loop runs on, and the thread of run_continuous keeps being scheduled
LiveNext == Start \/ SignalHandler \/ ManagerStop \/ LoopThread(FALSE, DuplicateKeyOnly)

LiveSpec == Init /\ [][LiveNext]_vars /\ WF_vars(LoopThread(FALSE, DuplicateKeyOnly))

----------------------------------------------------------------------------
(* Properties of the storage layer, checked under StoreSpec *)

Inserted(s) == s.calls_inserted + s.puts_inserted
Skipped(s) == s.calls_skipped + s.puts_skipped

\* C1: storing a batch of N entries with new, pairwise distinct keys and then
\* storing the identical batch again reports inserted = N, skipped = 0 the
\* first time and inserted = 0, skipped = N the second time, and the collection
\* then holds N documents more than before the first call, not 2N.
C1_StoreTwiceIdempotent ==
    (db_op.op = "store" /\ db_op.repeat /\ db_op.first_fresh) =>
        LET N == Len(db_op.calls) + Len(db_op.puts)
        IN  /\ Inserted(db_op.first_stats) = N
            /\ Skipped(db_op.first_stats) = 0
            /\ Inserted(db_op.stats) = 0
            /\ Skipped(db_op.stats) = N
            /\ db_op.stats.calls_skipped = Len(db_op.calls)
            /\ db_op.stats.puts_skipped = Len(db_op.puts)
            /\ BagCardinality(store) = db_op.first_before + N

\* one call and one put stored twice into the empty collection: it holds 2
C1_Witness ==
    /\ db_op.op = "store" /\ db_op.repeat /\ db_op.first_fresh
    /\ Len(db_op.calls) = 1 /\ Len(db_op.puts) = 1
    /\ db_op.first_before = 0
    /\ BagCardinality(store) = 2

C3_DuplicatesSkippedRestInserted ==
    db_op.op = "store" =>
        /\ ~ db_op.raised
        /\ \A i \in DOMAIN db_op.calls : db_op.calls[i] \in BagToSet(store)
        /\ \A i \in DOMAIN db_op.puts : db_op.puts[i] \in BagToSet(store)
        /\ db_op.stats.calls_skipped = db_op.dup_calls
        /\ db_op.stats.puts_skipped = db_op.dup_puts
        /\ db_op.stats.calls_inserted + db_op.stats.calls_skipped = Len(db_op.calls)
        /\ db_op.stats.puts_inserted + db_op.stats.puts_skipped = Len(db_op.puts)
        /\ db_op.stats.total_processed = Len(db_op.calls) + Len(db_op.puts)
        /\ BagCardinality(store) = db_op.before + Inserted(db_op.stats)

\* a batch of two calls, the first one stored already and the second one new
C3_Witness ==
    /\ db_op.op = "store" /\ Len(db_op.calls) = 2
    /\ db_op.dup_calls = 1 /\ db_op.calls[1] # db_op.calls[2]
    /\ db_op.stats.calls_inserted = 1
    /\ db_op.before >= 1

C21_Status200Or404Or503 ==
    db_op.op = "get_option_chain" =>
        /\ db_op.status \in {200, 404, 503}
        /\ db_op.fault # "none" => db_op.status = 503
        /\ (db_op.fault = "none" /\ db_op.r_calls = <<>> /\ db_op.r_puts = <<>>) =>
               db_op.status = 404

----------------------------------------------------------------------------
(* Properties of the pipeline loop, checked under Spec, ExampleSpec and LiveSpec *)

\* a cycle of the current pass has returned, and `cycle` and `result` are its
CycleReturned == loop_pc = "for" /\ tick # <<>>

\* run_single_cycle is under way
InCycle == loop_pc \in {"fetch", "store_calls", "store_puts"}

\* C4: when a cycle fetches the payload that the previous cycle of its symbol
\* fetched, it stores nothing: its records count as skipped and the number of
\* stored records does not grow.
C4_RefetchNotStoredAgain ==
    (CycleReturned /\ result.success /\ cycle.refetch) =>
        /\ result.calls_inserted = 0 /\ result.puts_inserted = 0
        /\ result.calls_skipped = result.calls_processed
        /\ result.puts_skipped = result.puts_processed
        /\ BagCardinality(store) = cycle.entry_count

\* C6: once a stop request has set running to False while the thread of
\* run_continuous exists, the loop exits and cleanup closes the connection.
C6_StopLeadsToExit ==
    (stop_requested /\ loop_pc # "idle") ~> (loop_pc = "exited" /\ db_closes > 0)

\* C7: while a cycle is under way the storage connection has not been closed.
C7_NoCloseDuringCycle == InCycle => db_closes = 0

\* C14: the storage connection of the pipeline is closed at most once, and
\* exactly once when run_continuous has exited.
C14_ClosedExactlyOnce ==
    /\ db_closes <= 1
    /\ loop_pc = "exited" => db_closes = 1

\* C15: a read of the latest snapshot that runs while a cycle is storing and
\* that reports the fetched_at of that cycle returns every PUT record of the
\* cycle along with its CALL records (up to the limit asked for).
C15_SnapshotAllOrNone ==
    (/\ db_op.op = "latest" /\ db_op.during = "store_puts"
     /\ db_op.r_calls # <<>> /\ db_op.cycle_calls # <<>>
     /\ db_op.symbol = db_op.cycle_calls[1].symbol
     /\ db_op.r_calls[1].fetched_at = db_op.cycle_calls[1].fetched_at) =>
        Len(db_op.r_puts) = Min(db_op.limit, Len(db_op.cycle_puts))

\* C16: a cycle in which the store rejected a document for a reason other than
\* a duplicate key reports success = false.
C16_WriteErrorFailsCycle ==
    (CycleReturned /\ cycle.write_errors > 0) => ~ result.success

\* C25: a cycle whose fetch failed on every attempt, or whose parse failed,
\* leaves the store as it was when the cycle began.
C25_FailedFetchStoresNothing ==
    (CycleReturned /\ (result.error = "parse" \/ cycle.raw = fallback_data(cycle.symbol))) =>
        BagCardinality(store) = cycle.entry_count

\* C8: a pass that ends with running still set has run the cycle of every
\* symbol, whichever of them failed, and the loop is only left on a stop request.
C8_CycleIsolation ==
    /\ (loop_pc = "tick_end" /\ running) => Len(tick) = Len(symbols)
    /\ loop_pc \in {"finally", "exited"} => stop_requested

\* after a pass that failed the loop has gone on to a second pass, in which the
\* first symbol's cycle failed and the second symbol's cycle ran and succeeded
C8_Witness ==
    /\ total_cycles = 2 /\ failed_cycles = 1 /\ ~ stop_requested
    /\ loop_pc = "tick_end" /\ tick = <<FALSE, TRUE>>

C12_FetchTimeOnlyAfterInsert ==
    (CycleReturned /\ last_successful_fetch # cycle.entry_fetch) =>
        /\ result.success
        /\ result.calls_processed + result.puts_processed > 0

----------------------------------------------------------------------------
(* Properties of parse_option_chain, checked under ParseSpec *)

\* C17: all entries one call of parse_option_chain returns, calls and puts
\* alike, carry one fetched_at, the clock reading of the call.
C17_OneFetchedAt ==
    parse.pc = "returned" => \A e \in Parsed : e.fetched_at = parse.fetched_at

\* a chain of two rows has been parsed into two calls and two puts
C17_Witness ==
    /\ parse.pc = "returned"
    /\ Len(parse.call_options) = 2 /\ Len(parse.put_options) = 2

\* C18: no entry parse_option_chain returns has a strike price of 0 or less
\* or an empty expiry date.
C18_StrikeAndExpiryValid ==
    parse.pc = "returned" =>
        \A e \in Parsed : e.strike_price > 0 /\ e.expiry_date # ""

\* the strike of the row is a positive number and its expiry a date
Sound(row) ==
    /\ ~ float_of(get(row.strikePrice, RawNone)).none
    /\ float_of(get(row.strikePrice, RawNone)).n > 0
    /\ row.expiryDate.t = "str" /\ row.expiryDate.s # ""

\* the raw value is the empty string, "-", None or spells no number
Unusable(v) == blank(get(v, RawNone)) \/ float_of(get(v, RawNone)).none

\* C19: a sound row with a CE whose lastPrice, or whose chain's
\* underlyingValue, is blank or spells no number yields its CALL entry, with
\* last_price None when lastPrice is such.
C19_BlankFieldIsNone ==
    (parse.pc = "returned" /\ ~ parse.raised) =>
        \A i \in DOMAIN parse.raw_data.data :
            LET row == parse.raw_data.data[i]
            IN  (/\ Sound(row) /\ row.CE.present
                 /\ \/ Unusable(row.CE.lastPrice)
                    \/ Unusable(parse.raw_data.underlyingValue)) =>
                    \E e \in Parsed :
                        /\ e.type = CE
                        /\ e.strike_price = float_of(row.strikePrice).n
                        /\ Unusable(row.CE.lastPrice) => e.last_price = None

\* C26: every entry returned has a market field populated: its last_price,
\* or the underlying value of its chain.
C26_NoEmptyPlaceholder ==
    parse.pc = "returned" =>
        \A e \in Parsed :
            \/ ~ e.last_price.none
            \/ ~ blank(get(parse.raw_data.underlyingValue, RawNone))

\* the sub-object is in the row and its market field is a number
Carries(side) == side.present /\ ~ Unusable(side.lastPrice)

\* the rows of the payload parsed that have the sub-object of `type`
RowsWith(type) ==
    { i \in DOMAIN parse.raw_data.data :
        IF type = CE THEN parse.raw_data.data[i].CE.present
                     ELSE parse.raw_data.data[i].PE.present }

\* C27: the rows yield no more CALL entries than have a CE and no more PUT
\* entries than have a PE, and a sound row whose CE and PE both carry market
\* data yields a CALL and a PUT entry with the symbol and strike of the row.
C27_OneCallOnePutPerRow ==
    (parse.pc = "returned" /\ ~ parse.raised) =>
        /\ Len(parse.call_options) <= Cardinality(RowsWith(CE))
        /\ Len(parse.put_options) <= Cardinality(RowsWith(PE))
        /\ \A i \in DOMAIN parse.raw_data.data :
              LET row == parse.raw_data.data[i]
              IN  (Sound(row) /\ Carries(row.CE) /\ Carries(row.PE)) =>
                     \A type \in {CE, PE} :
                        \E e \in Parsed :
                            /\ e.type = type /\ e.symbol = parse.symbol
                            /\ e.strike_price = float_of(row.strikePrice).n

\* the number a STRIKE cell of the texts spells, thousands separators allowed;
\* Never for a cell that is blank or spells none
StrikeOf(cell) ==
    CASE cell = "25000" -> 25000
      [] cell = "25,000" -> 25000
      [] cell = "25100" -> 25100
      [] cell = "25,100" -> 25100
      [] OTHER -> Never

\* the data rows of the text parsed whose STRIKE is numeric and whose cell
\* `column` is populated
DataRows(column) ==
    { i \in DOMAIN csv.csv_data :
        /\ StrikeOf(csv.csv_data[i].STRIKE) # Never
        /\ csv.csv_data[i][column] \notin {"", "-"} }

\* C28: the parse of a CSV text returns one CALL document for each data row
\* with a numeric STRIKE and a populated CALL column, one PUT document for each
\* with a numeric STRIKE and a populated PUT column, each with the symbol of
\* the call and the strike of such a row; other rows yield no document.
C28_OneCallOnePutPerDataRow ==
    csv.pc \in {"parsed", "returned"} =>
        /\ Len(csv.call_docs) = Cardinality(DataRows("LTP"))
        /\ Len(csv.put_docs) = Cardinality(DataRows("LTP_1"))
        /\ \A i \in DOMAIN csv.call_docs :
              /\ csv.call_docs[i].type = "CALL" /\ csv.call_docs[i].symbol = csv.symbol
              /\ \E r \in DataRows("LTP") :
                    csv.call_docs[i].strike_price = StrikeOf(csv.csv_data[r].STRIKE)
        /\ \A i \in DOMAIN csv.put_docs :
              /\ csv.put_docs[i].type = "PUT" /\ csv.put_docs[i].symbol = csv.symbol
              /\ \E r \in DataRows("LTP_1") :
                    csv.put_docs[i].strike_price = StrikeOf(csv.csv_data[r].STRIKE)

\* a text of a populated row with a numeric STRIKE and a populated row with a
\* STRIKE that is no number has been parsed into one CALL and one PUT document
C28_Witness ==
    /\ csv.pc = "parsed"
    /\ csv.csv_data = << CsvRow("100", "25,100", "50"), CsvRow("100", "abc", "50") >>
    /\ Len(csv.call_docs) = 1 /\ Len(csv.put_docs) = 1
    /\ csv.call_docs[1].strike_price = 25100

\* how many documents of `type` and `strike_price` the collection of the CSV
\* pipeline holds
StoredFor(type, strike_price) ==
    LET those == { d \in BagToSet(csv.collection) :
                     d.type = type /\ d.strike_price = strike_price }
    IN  BagCardinality([d \in those |-> CopiesIn(d, csv.collection)])

\* C29: when a cycle has fetched a chain with two rows of one strike and two
\* expiry dates, each with a CALL price, the collection with the unique index
\* holds a CALL document for each of the two once the cycle has stored.
C29_BothExpiriesStored ==
    (csv.pc = "returned" /\ csv.source = "json" /\ ~ csv.mock) =>
        \A i, j \in DOMAIN csv.json_data.data :
            LET a == csv.json_data.data[i]
                b == csv.json_data.data[j]
            IN  ( /\ a.strikePrice = b.strikePrice
                  /\ a.expiryDate # b.expiryDate
                  /\ a.CE = Side(RawNum(100)) /\ b.CE = Side(RawNum(100)) )
                => StoredFor("CALL", a.strikePrice.n) >= 2

\* C30: once a pass has computed its sleep, sleep_time is fetch_interval less
\* the time the pass took, and 0 when that is negative; a pass that took
\* fetch_interval or longer logs the warning and calls no sleep, any other pass
\* calls time.sleep with sleep_time and logs no warning; and a pass never
\* starts less than fetch_interval after the pass before it started.
C30_SleepsTheRemainder ==
    /\ sched.cycle_time # Never =>
          /\ sched.sleep_time >= 0
          /\ sched.sleep_time = (IF sched.cycle_time < fetch_interval
                                 THEN fetch_interval - sched.cycle_time ELSE 0)
          /\ sched.cycle_time >= fetch_interval =>
                sched.warned /\ sched.asked = Never /\ sched.pc # "sleep"
          /\ sched.cycle_time < fetch_interval =>
                /\ ~ sched.warned
                /\ sched.pc = "sleep" \/ sched.asked = sched.sleep_time
    /\ sched.last_start # Never =>
          sched.cycle_start - sched.last_start >= fetch_interval

\* a pass that overran has been followed at once by a pass that began
\* more than fetch_interval after it and was left a remainder to sleep
C30_Witness ==
    /\ sched.last_start # Never
    /\ sched.cycle_start - sched.last_start > fetch_interval
    /\ sched.pc = "while" /\ sched.asked > 0 /\ sched.asked = sched.sleep_time

\* the dict get_status returned, as its holder reads it
Returned ==
    [total_cycles |-> reader.total_cycles,
     successful_cycles |-> reader.successful_cycles,
     failed_cycles |-> reader.failed_cycles,
     success_rate |-> reader.success_rate,
     statistics |-> deref(reader.statistics)]

\* C31: once get_status has returned, no step changes what the dict it
\* returned reads as; and no step of get_status changes the counters, the
\* statistics or the collection.
C31_StatusIsACopy ==
    [][ /\ reader.pc = "returned" => Returned' = Returned
        /\ reader' # reader =>
              UNCHANGED <<store, total_cycles, successful_cycles, failed_cycles,
                          last_successful_fetch, stats>> ]_vars

\* get_status has returned and the loop has since counted a pass and added to
\* its statistics
C31_Witness ==
    /\ reader.pc = "returned"
    /\ reader.total_cycles < total_cycles
    /\ reader.successful_cycles < successful_cycles
    /\ Returned.statistics # stats

\* C32: in the dict get_status returns, successful_cycles and failed_cycles
\* together are no more than total_cycles.
C32_SnapshotIsConsistent ==
    reader.pc = "returned" =>
        reader.successful_cycles + reader.failed_cycles <= reader.total_cycles

\* C40: get_status raises no ZeroDivisionError, and success_rate, once
\* computed, is between 0 and 100.
C40_RateWithinBounds ==
    /\ reader.pc # "ZeroDivisionError"
    /\ reader.pc \in {"statistics", "returned"} =>
          /\ reader.success_rate.d > 0
          /\ 0 <= reader.success_rate.n
          /\ reader.success_rate.n <= 100 * reader.success_rate.d

\* get_status has returned a success_rate whose numerator it read before a
\* pass of the loop began and whose denominator it read after
C40_Witness ==
    /\ reader.pc = "returned"
    /\ reader.success_rate = Rate(100, 2)
    /\ reader.total_cycles = 1

\* C33: the passes counted as successful or failed are never more than the
\* passes begun and at most one less, and they are as many whenever the loop
\* sleeps between two passes or has left the while loop.
C33_CountersAddUp ==
    /\ successful_cycles + failed_cycles <= total_cycles
    /\ total_cycles <= successful_cycles + failed_cycles + 1
    /\ loop_pc \in {"sleep", "finally", "exited"} =>
          total_cycles = successful_cycles + failed_cycles

\* the loop has left the while loop after a successful and a failed pass
C33_Witness ==
    /\ loop_pc = "exited"
    /\ total_cycles = 2 /\ successful_cycles = 1 /\ failed_cycles = 1

\* C34: the end of a pass adds one to failed_cycles when a cycle of the pass
\* failed and one to successful_cycles when none did, a pass without cycles
\* included; no other step changes either counter.
C34_FailedIffACycleFailed ==
    [][ IF loop_pc = "tick_end" /\ loop_pc' # "tick_end"
        THEN IF \E i \in DOMAIN tick : ~ tick[i]
             THEN /\ failed_cycles' = failed_cycles + 1
                  /\ successful_cycles' = successful_cycles
             ELSE /\ successful_cycles' = successful_cycles + 1
                  /\ failed_cycles' = failed_cycles
        ELSE UNCHANGED <<successful_cycles, failed_cycles>> ]_vars

\* a stop request had the only pass skip every symbol, and the pass was
\* counted as successful
C34_Witness ==
    /\ stop_requested
    /\ total_cycles = 1 /\ successful_cycles = 1 /\ failed_cycles = 0
    /\ last_successful_fetch = Never /\ BagCardinality(store) = 0
    /\ \A x \in Symbols : lastp[x] = NoRecordsKey

\* C35: after every cycle total_calls_inserted and total_puts_inserted
\* together are the number of documents in the collection.
C35_InsertedIsStored ==
    CycleReturned =>
        stats.total_calls_inserted + stats.total_puts_inserted = BagCardinality(store)

\* C36: a cycle that returned success = False has left the collection as it
\* found it.
C36_FailedCycleAddsNothing ==
    (CycleReturned /\ ~ result.success) => BagCardinality(store) = cycle.entry_count

\* C37: once PipelineManager.stop has returned, the thread has left
\* run_continuous and is_running() is false.
C37_StoppedThreadHasExited ==
    caller = "manager_stopped" => (loop_pc = "exited" /\ ~ is_running)

\* C38: a call of fetch_option_chain never raises; it has returned by the
\* time its third request is answered; and what it returns is the body of an
\* answer that validated, "records" in it, or the fallback payload.
C38_ReturnsWithinThreeAttempts ==
    /\ fetch.pc # "RuntimeError"
    /\ Len(fetch.answers) <= MAX_ATTEMPTS
    /\ Len(fetch.answers) = MAX_ATTEMPTS => fetch.pc = "returned"
    /\ fetch.pc = "returned" =>
          LET last == fetch.answers[Len(fetch.answers)]
          IN  \/ /\ fetch.source = "upstream"
                 /\ validates(last) /\ fetch.data = last.json
                 /\ fetch.data.has_records
              \/ /\ fetch.source = "fallback"
                 /\ Len(fetch.answers) = MAX_ATTEMPTS /\ ~ validates(last)
                 /\ fetch.data = fallback_data(fetch.symbol)

\* three requests have failed and the call has returned the fallback payload
C38_Witness ==
    /\ fetch.pc = "returned" /\ fetch.source = "fallback"
    /\ Len(fetch.answers) = MAX_ATTEMPTS
    /\ \A i \in DOMAIN fetch.answers : ~ validates(fetch.answers[i])

\* C39: a cycle that stores in the stand-in collection returns the statistics
\* and leaves the documents that the collection with the unique index would.
C39_MockStoresAsMongo ==
    (csv.pc = "returned" /\ csv.mock) =>
        LET real == mongo_store_option_data(EmptyBag, csv.call_docs, csv.put_docs)
        IN  /\ csv.stats = real.stats
            /\ csv.collection = real.coll

\* C20: among the entries returned, two of the same symbol, type, strike price
\* and expiry date carry the same identifier, and two that differ in one of
\* these carry different identifiers.
C20_IdentifierOfContract ==
    parse.pc = "returned" =>
        \A e1, e2 \in Parsed :
            (e1.identifier = e2.identifier) <=>
                (/\ e1.symbol = e2.symbol /\ e1.type = e2.type
                 /\ e1.strike_price = e2.strike_price
                 /\ e1.expiry_date = e2.expiry_date)

----------------------------------------------------------------------------
(* Properties of main.py, checked under MainSpec *)

\* C13: at most one fetch-and-store cycle is in progress at any time, and at
\* most one upstream request is in flight.
C13_CyclesNeverOverlap ==
    /\ ~ (InFetchMain(main.scraper) /\ InFetchMain(main.handler))
    /\ InFlight <= 1

----------------------------------------------------------------------------
(* Properties of NSEHttpClient.fetch_option_chain_csv, checked under HttpSpec *)

\* C22: the first pass of a fetch runs no session initialization; every later
\* pass runs it, then makes the pause, then issues its data request.
C22_RefreshBeforeEveryRetry ==
    \A i \in DOMAIN http.log :
        IF i = 1
        THEN http.log[i].warm = "none" /\ ~ http.log[i].slept
        ELSE /\ http.log[i].warm # "none"
             /\ http.log[i].slept
             /\ http.log[i].requests # <<>>

\* C23: a fetch that returns an upstream answer returns one with status 200
\* and a body that is neither empty nor an HTML page.
C23_OnlyValidatedAnswers ==
    (http.pc = "returned" /\ http.source # "fallback") =>
        /\ http.status = 200
        /\ http.body \notin {"empty", "html"}

\* C24: a pass whose session initialization failed has still issued its data
\* request.
C24_WarmUpFailureTolerated ==
    \A i \in DOMAIN http.log :
        http.log[i].warm = "failed" => http.log[i].requests # <<>>

----------------------------------------------------------------------------
(* Properties of fetch_option_chain, checked under FetchSpec *)

Count(events, e) == Cardinality({ i \in 1 .. Len(events) : events[i] = e })

\* C10: a call makes at most MAX_ATTEMPTS requests, and it returns the payload
\* of the first answer that validates right after the request that got it:
\* no request and no session refresh follows.
C10_AtMostThreeFirstValidReturns ==
    LET gets == Count(fetch.events, "get")
        n == Len(fetch.answers)
    IN  /\ gets <= MAX_ATTEMPTS
        /\ gets = n
        /\ Count(fetch.events, "initialize_session") = IF n = 0 THEN 0 ELSE n - 1
        /\ \A i \in 1 .. n - 1 : ~ validates(fetch.answers[i])
        /\ (n > 0 /\ validates(fetch.answers[n])) =>
               /\ fetch.pc = "returned" /\ fetch.source = "upstream"
               /\ fetch.data = fetch.answers[n].json
               /\ fetch.events[Len(fetch.events)] = "get"

\* C11: when every attempt of a call has failed, the call raises an error
\* unless USE_FALLBACK_DATA is set, and only then does it return the fallback
\* data.
C11_FallbackOnlyWhenEnabled ==
    (fetch.pc # "attempting" /\ fetch.pc # "idle" /\ Len(fetch.answers) = MAX_ATTEMPTS
       /\ \A i \in 1 .. MAX_ATTEMPTS : ~ validates(fetch.answers[i])) =>
        IF fetch.USE_FALLBACK_DATA
        THEN fetch.pc = "returned" /\ fetch.source = "fallback"
        ELSE fetch.pc = "raised"

\* the second request got the first answer that validates
C10_Witness ==
    /\ fetch.pc = "returned" /\ fetch.source = "upstream"
    /\ Len(fetch.answers) = 2
    /\ fetch.events = <<"get", "initialize_session", "sleep3", "get">>

====
